---- MODULE Spec2Model ----
(***************************************************************************)
(* Resume-analysis web application (ali14a/myAIHR): accounts, sessions,    *)
(* password reset, monthly quota, resumes / job descriptions and profile.  *)
(* The relational tables are modelled as sequences (users, reset tokens)   *)
(* and sets of rows (resumes, job descriptions); every request handler is  *)
(* one atomic action unless a claim is about interleavings.                *)
(***************************************************************************)
EXTENDS Integers, Sequences, FiniteSets, TLC

\* ------------------------------------------------------------------------
\* Program constants
\* ------------------------------------------------------------------------
MAX_MONTHLY_SCANS == 10
PASSWORD_RESET_TOKEN_EXPIRE_HOURS == 24
ACCESS_TOKEN_EXPIRE_DAYS == 7
MIN_PASSWORD_LEN == 6
SECRET_KEY == "dev-secret-key-change-in-production"
UNLIMITED_EMAIL == "nadeemali001@gmail.com"
LINKEDIN_PLACEHOLDER == "linkedin_oauth_user"
UNLIMITED_REMAINING == 999999

\* ------------------------------------------------------------------------
\* Bounds of the model
\* ------------------------------------------------------------------------
MaxUsers == 2
MaxResetTokens == 2
MaxResetTicks == 2
MaxMonths == 1
MaxSessionTicks == 2
MaxIssued == 2
MaxResumes == 2
MaxJds == 1
MaxRowId == 2

\* Clock steps, in hours (the clock `now` counts hours since start-up).
HoursPerDay == 24
HoursPerMonth == 24 * 30
ResetTick == 12
SessionTick == ACCESS_TOKEN_EXPIRE_DAYS * HoursPerDay

NULL == "<null>"

Emails == {"a@x.com", "b@x.com", UNLIMITED_EMAIL}
Passwords == {"secret1", "secret2", "short", LINKEDIN_PLACEHOLDER}

ProfileFields ==
  {"first_name", "last_name", "mobile_number", "company", "job_title", "location", "bio"}

VARIABLES
  users,         \* table users: sequence of rows, id = index
  resumes,       \* table resumescans: set of rows
  files,         \* names of the files present in UPLOAD_DIR
  jds,           \* table job_descriptions: set of rows
  reset_tokens,  \* table password_reset_tokens: sequence of rows, token = index
  issued,        \* session tokens (JWTs) the server has issued
  now,           \* wall clock, hours
  procs,         \* in-flight registrations: process -> [pc, email, password]
  resp           \* response of the last request handled

vars == <<users, resumes, files, jds, reset_tokens, issued, now, procs, resp>>

\* ------------------------------------------------------------------------
\* Passwords and hashes (auth.py)
\* ------------------------------------------------------------------------
\* pwd_ctx.hash: a salted pbkdf2_sha256 digest; it is not the password and
\* contains "$" separators.
get_password_hash(password) == [scheme |-> "pbkdf2_sha256", text |-> password]

\* A stored value passlib does not recognise (plain text written directly).
PlainStored(s) == [scheme |-> "none", text |-> s]

UnknownHash(hashed) == hashed.scheme = "none"

\* pwd_ctx.verify for a recognised hash; raises UnknownHashError otherwise
\* (callers test UnknownHash first).
verify_password(plain, hashed) ==
  hashed.scheme = "pbkdf2_sha256" /\ hashed.text = plain

\* "$" not in stored: passlib digests carry "$", the plain values stored by the
\* program (LINKEDIN_PLACEHOLDER) do not.
HasDollar(hashed) == hashed.scheme # "none"

\* ------------------------------------------------------------------------
\* Users table
\* ------------------------------------------------------------------------
UserIds == 1..Len(users)

EmptyProfile == [f \in ProfileFields |-> NULL]

\* models.User(...) with column defaults: scan_count 0, last_quota_reset now()
NewUser(email, hashed, profile, photo, linkedin) ==
  [email |-> email, hashed_password |-> hashed, scan_count |-> 0,
   last_quota_reset |-> now, profile |-> profile, profile_photo |-> photo,
   linkedin_url |-> linkedin]

\* db.query(User).filter(User.email == email).first(): the id, or 0 for None
UserByEmail(email) ==
  IF \E i \in UserIds : users[i].email = email
  THEN CHOOSE i \in UserIds : users[i].email = email /\
         \A j \in UserIds : users[j].email = email => i <= j
  ELSE 0

\* db.query(User).first()
FirstUser == IF Len(users) > 0 THEN 1 ELSE 0

\* unique=True on users.email: the INSERT fails with IntegrityError when the
\* email is already present.
EmailUniqueViolation(email) == \E i \in UserIds : users[i].email = email

\* Concurrent account-creating requests (each runs in its own DB session).
Procs == {1, 2}

NoRow ==
  [email |-> NULL, hashed_password |-> PlainStored(NULL), scan_count |-> 0,
   last_quota_reset |-> 0, profile |-> EmptyProfile, profile_photo |-> NULL,
   linkedin_url |-> NULL]

IdleProc == [pc |-> "idle", kind |-> NULL, row |-> NoRow]

\* ------------------------------------------------------------------------
\* Initial state: empty database, empty upload directory
\* ------------------------------------------------------------------------
NoToken == [kind |-> "none", sub |-> "", exp |-> 0, key |-> ""]

\* A response: status code, message, and for logins the session token and user
\* (ref: the id of the row the request named, 0 when it names none).
FullResponse(op, status, message, token, uid) ==
  [op |-> op, status |-> status, message |-> message, token |-> token, uid |-> uid,
   ref |-> 0]

Response(op, status, message) == FullResponse(op, status, message, NoToken, 0)

RefResponse(op, status, message, ref) ==
  [FullResponse(op, status, message, NoToken, 0) EXCEPT !.ref = ref]

Init ==
  /\ users = <<>>
  /\ resumes = {}
  /\ files = {}
  /\ jds = {}
  /\ reset_tokens = <<>>
  /\ issued = {}
  /\ now = 0
  /\ procs = [p \in Procs |-> IdleProc]
  /\ resp = Response("none", 0, "")

\* ------------------------------------------------------------------------
\* Session tokens (auth.py create_session_token / get_current_user_from_request)
\* ------------------------------------------------------------------------
\* What a request presents in the Authorization header or the session cookie
\* (NoToken: neither is present).
MalformedToken == [kind |-> "malformed", sub |-> "", exp |-> 0, key |-> ""]
Jwt(sub, exp, key) == [kind |-> "jwt", sub |-> sub, exp |-> exp, key |-> key]

create_session_token(email) ==
  Jwt(email, now + ACCESS_TOKEN_EXPIRE_DAYS * HoursPerDay, SECRET_KEY)

\* Variant: the exp claim is not verified
JwtDecodes_NoExpiry(token) == token.kind = "jwt" /\ token.key = SECRET_KEY

\* jwt.decode(token, SECRET_KEY, algorithms=[ALGORITHM]): signature and exp
JwtDecodes(token) ==
  /\ token.kind = "jwt"
  /\ token.key = SECRET_KEY
  /\ ~(token.exp < now)

\* The id of the authenticated user, 0 for None
get_current_user_from_request(token) ==
  IF token.kind = "none" THEN 0
  ELSE IF ~JwtDecodes(token) THEN 0
  ELSE IF token.sub = "" THEN 0
  ELSE UserByEmail(token.sub)

\* Tokens a client can present: those the server issued, or ones it made up
\* for an existing account without knowing SECRET_KEY.
ForgedTokens ==
  {Jwt(users[u].email, now + ACCESS_TOKEN_EXPIRE_DAYS * HoursPerDay, "attacker-key") :
     u \in UserIds}

PresentedTokens == issued \cup ForgedTokens \cup {NoToken, MalformedToken}

\* ------------------------------------------------------------------------
\* Registration and password login (auth.py, app.py)
\* ------------------------------------------------------------------------
\* Variant: the existing-email lookup is skipped
create_user_ok_NoLookup(email) == TRUE

\* auth.create_user run without interleaving: TRUE when the row is inserted
create_user_ok(email) == UserByEmail(email) = 0

api_register(email, password) ==
  /\ IF Len(password) < MIN_PASSWORD_LEN
     THEN /\ resp' = Response("register", 422, "validation error")
          /\ UNCHANGED users
     ELSE IF ~create_user_ok(email)
     THEN /\ resp' = Response("register", 400, "Email already registered")
          /\ UNCHANGED users
     ELSE /\ Len(users) < MaxUsers
          /\ users' = Append(users,
                        NewUser(email, get_password_hash(password), EmptyProfile, NULL, NULL))
          /\ resp' = Response("register", 200, "User registered successfully")
  /\ UNCHANGED <<resumes, files, jds, reset_tokens, issued, now, procs>>

\* Variant: the user row is returned without checking the password
authenticate_user_NoVerify(email, password) == UserByEmail(email)

\* auth.authenticate_user: the id of the user returned, 0 for None
authenticate_user(email, password) ==
  LET u == UserByEmail(email) IN
  IF u = 0 THEN 0
  ELSE IF ~UnknownHash(users[u].hashed_password)
  THEN IF verify_password(password, users[u].hashed_password) THEN u ELSE 0
  ELSE IF ~HasDollar(users[u].hashed_password) /\ password = users[u].hashed_password.text
  THEN u
  ELSE 0

\* The users table after authenticate_user: the plain-text fallback re-hashes
authenticate_user_db(email, password) ==
  LET u == authenticate_user(email, password) IN
  IF u # 0 /\ UnknownHash(users[u].hashed_password)
  THEN [users EXCEPT ![u].hashed_password = get_password_hash(password)]
  ELSE users

LoginResponse(status, message, token, uid) ==
  FullResponse("login", status, message, token, uid)

api_login(email, password) ==
  LET u == authenticate_user(email, password) IN
  /\ IF Len(password) < MIN_PASSWORD_LEN
     THEN /\ resp' = LoginResponse(422, "validation error", NoToken, 0)
          /\ UNCHANGED <<users, issued>>
     ELSE IF u = 0
     THEN /\ resp' = LoginResponse(401, "Invalid credentials", NoToken, 0)
          /\ users' = authenticate_user_db(email, password)
          /\ UNCHANGED issued
     ELSE /\ (create_session_token(users[u].email) \in issued
                \/ Cardinality(issued) < MaxIssued)
          /\ users' = authenticate_user_db(email, password)
          /\ issued' = issued \cup {create_session_token(users[u].email)}
          /\ resp' = LoginResponse(200, "Login successful",
                                   create_session_token(users[u].email), u)
  /\ UNCHANGED <<resumes, files, jds, reset_tokens, now, procs>>

\* ------------------------------------------------------------------------
\* OAuth accounts (google_auth.py, linkedin_auth.py)
\* ------------------------------------------------------------------------
\* secrets.token_urlsafe(32): a value no client supplies
RANDOM_PASSWORD == "<random-urlsafe-32>"

GoogleUserData ==
  [email : {"a@x.com"}, given_name : {NULL, "Ann"},
   family_name : {"Lee"}, picture : {"http://g/photo"}]

LinkedInUserData ==
  [email : {NULL, "a@x.com"}, linkedin_id : {"li7"}, first_name : {"Ann"},
   last_name : {NULL}, picture : {NULL}]

Truthy(v) == v # NULL /\ v # ""

LinkedInUrl(data) == "https://www.linkedin.com/in/" \o data.linkedin_id

\* linkedin_auth.py: the e-mail used for the account
LinkedInEmail(data) ==
  IF Truthy(data.email) THEN data.email
  ELSE "linkedin_" \o data.linkedin_id \o "@linkedin.local"

\* The row GoogleAuthService.find_or_create_user inserts
GoogleNewRow(data) ==
  NewUser(data.email, get_password_hash(RANDOM_PASSWORD),
          [EmptyProfile EXCEPT !["first_name"] = data.given_name,
                               !["last_name"] = data.family_name],
          data.picture, NULL)

\* The row LinkedInAuthService.find_or_create_user inserts: the password
\* column holds the placeholder text itself, not a hash
LinkedInNewRow(data) ==
  NewUser(LinkedInEmail(data), PlainStored(LINKEDIN_PLACEHOLDER),
          [EmptyProfile EXCEPT !["first_name"] = data.first_name,
                               !["last_name"] = data.last_name],
          data.picture, LinkedInUrl(data))

\* An existing row after the "update ... if needed" branch
FillIfEmpty(old, new) == IF ~Truthy(old) /\ Truthy(new) THEN new ELSE old

GoogleUpdatedRow(row, data) ==
  [row EXCEPT !.profile["first_name"] = FillIfEmpty(@, data.given_name),
              !.profile["last_name"] = FillIfEmpty(@, data.family_name),
              !.profile_photo = FillIfEmpty(@, data.picture)]

LinkedInUpdatedRow(row, data) ==
  [row EXCEPT !.profile["first_name"] = FillIfEmpty(@, data.first_name),
              !.profile["last_name"] = FillIfEmpty(@, data.last_name),
              !.profile_photo = FillIfEmpty(@, data.picture),
              !.linkedin_url = IF ~Truthy(@) THEN LinkedInUrl(data) ELSE @]

\* ------------------------------------------------------------------------
\* Account creation step by step: SELECT by e-mail, then INSERT + COMMIT.
\* Two requests may both pass the SELECT before either commits.
\* ------------------------------------------------------------------------
SessionIssuable(email) ==
  create_session_token(email) \in issued \/ Cardinality(issued) < MaxIssued

\* create_user, lines 33-36, on behalf of a route: `dup` is the route's answer
\* to ValueError("Email already registered")
CreateUserBegin(p, kind, email, password, dup) ==
  /\ procs[p].pc = "idle"
  /\ IF ~create_user_ok(email)
     THEN /\ resp' = dup
          /\ UNCHANGED procs
     ELSE /\ procs' = [procs EXCEPT ![p] =
                 [pc |-> "insert", kind |-> kind,
                  row |-> NewUser(email, get_password_hash(password),
                                  EmptyProfile, NULL, NULL)]]
          /\ UNCHANGED resp
  /\ UNCHANGED <<users, resumes, files, jds, reset_tokens, issued, now>>

\* POST /api/auth/register up to the INSERT (RegisterRequest validates the length)
BeginCreateUser(p, email, password) ==
  /\ Len(password) >= MIN_PASSWORD_LEN
  /\ CreateUserBegin(p, "create_user", email, password,
                     Response("register", 400, "Email already registered"))

\* POST /register (HTML form) up to the INSERT: register.html with the error
BeginPostRegister(p, email, password) ==
  CreateUserBegin(p, "post_register", email, password,
                  Response("register_form", 200, "Email already registered"))

OAuthBegin(p, kind, email, updated, newrow) ==
  /\ procs[p].pc = "idle"
  /\ IF UserByEmail(email) # 0
     THEN /\ SessionIssuable(email)
          /\ users' = [users EXCEPT ![UserByEmail(email)] = updated]
          /\ issued' = issued \cup {create_session_token(email)}
          /\ resp' = FullResponse(kind, 200, "login successful",
                                  create_session_token(email), UserByEmail(email))
          /\ UNCHANGED procs
     ELSE /\ procs' = [procs EXCEPT ![p] =
                 [pc |-> "insert", kind |-> kind, row |-> newrow]]
          /\ UNCHANGED <<users, issued, resp>>
  /\ UNCHANGED <<resumes, files, jds, reset_tokens, now>>

\* GoogleAuthService.find_or_create_user, lines 126-153
BeginGoogle(p, data) ==
  OAuthBegin(p, "google", data.email,
             IF UserByEmail(data.email) # 0
             THEN GoogleUpdatedRow(users[UserByEmail(data.email)], data) ELSE NoRow,
             GoogleNewRow(data))

\* LinkedInAuthService.find_or_create_user, lines 113-145
BeginLinkedIn(p, data) ==
  OAuthBegin(p, "linkedin", LinkedInEmail(data),
             IF UserByEmail(LinkedInEmail(data)) # 0
             THEN LinkedInUpdatedRow(users[UserByEmail(LinkedInEmail(data))], data)
             ELSE NoRow,
             LinkedInNewRow(data))

\* Variant: the users.email column without its unique index
InsertRejected_NoUniqueIndex(row) == FALSE

\* db.add(u); db.commit(): the unique index on users.email rejects a duplicate
InsertRejected(row) == EmailUniqueViolation(row.email)

CommitInsert(p) ==
  /\ procs[p].pc = "insert"
  /\ procs' = [procs EXCEPT ![p] = IdleProc]
  /\ IF InsertRejected(procs[p].row)
     THEN \* IntegrityError: create_user lets it reach api_register's generic
          \* handler; find_or_create_user rolls back and raises ValueError
          /\ resp' = IF procs[p].kind = "create_user"
                     THEN Response("register", 500, "Internal server error")
                     ELSE IF procs[p].kind = "post_register"
                     THEN Response("register_form", 500, "Internal Server Error")
                     ELSE Response(procs[p].kind, 400, "Failed to create or find user")
          /\ UNCHANGED <<users, issued>>
     ELSE /\ Len(users) < MaxUsers
          /\ users' = Append(users, [procs[p].row EXCEPT !.last_quota_reset = now])
          /\ IF procs[p].kind = "create_user"
             THEN /\ resp' = Response("register", 200, "User registered successfully")
                  /\ UNCHANGED issued
             ELSE IF procs[p].kind = "post_register"
             THEN /\ resp' = Response("register_form", 302, "/login")
                  /\ UNCHANGED issued
             ELSE /\ SessionIssuable(procs[p].row.email)
                  /\ issued' = issued \cup {create_session_token(procs[p].row.email)}
                  /\ resp' = FullResponse(procs[p].kind, 200, "login successful",
                                          create_session_token(procs[p].row.email),
                                          Len(users) + 1)
  /\ UNCHANGED <<resumes, files, jds, reset_tokens, now>>

Login == \E e \in {"a@x.com", "linkedin_li7@linkedin.local"}, pw \in Passwords :
  api_login(e, pw)

CreateUserStart == \E p \in Procs, e \in {"a@x.com", "b@x.com"}, pw \in {"secret1", "short"} :
  BeginCreateUser(p, e, pw)

PostRegisterStart == \E p \in Procs, e \in {"a@x.com"}, pw \in {"secret2"} :
  BeginPostRegister(p, e, pw)

GoogleStart == \E p \in Procs, d \in GoogleUserData : BeginGoogle(p, d)

LinkedInStart == \E p \in Procs, d \in LinkedInUserData : BeginLinkedIn(p, d)

InsertCommit == \E p \in Procs : CommitInsert(p)

NextAccounts ==
  CreateUserStart \/ PostRegisterStart \/ GoogleStart \/ LinkedInStart \/ InsertCommit \/ Login

SpecAccounts == Init /\ [][NextAccounts]_vars

\* ------------------------------------------------------------------------
\* Claims on accounts and login
\* ------------------------------------------------------------------------
\* C2: in every reachable state, whatever the interleaving of create_user and
\* Google / LinkedIn find_or_create_user calls, no two rows of the users table
\* have the same email.
C2_EmailUnique ==
  \A i \in UserIds, j \in UserIds : users[i].email = users[j].email => i = j

\* Two requests raced for one email and the later INSERT was rejected.
C2_Witness ==
  /\ resp.op = "register" /\ resp.status = 500
  /\ Len(users) >= 1

\* The supplied password is the one the stored credential was made from.
CredentialMatches(password, stored) == stored.text = password

\* C7: a login answers 200 with a session token only for the user whose email
\* was supplied and whose stored credential the supplied password matches; when
\* authenticate_user returns None the answer is 401 'Invalid credentials', and
\* whenever the answer is not 200 no token is issued and no user row changes.
C7_LoginOnlyWithValidCredentials ==
  [][\A e \in Emails \cup {"linkedin_li7@linkedin.local"}, pw \in Passwords :
       (resp'.op = "login" /\ api_login(e, pw)) =>
         /\ resp'.status = 200 =>
              /\ resp'.uid \in UserIds
              /\ users[resp'.uid].email = e
              /\ CredentialMatches(pw, users[resp'.uid].hashed_password)
              /\ resp'.token \in issued'
         /\ (Len(pw) >= MIN_PASSWORD_LEN
               /\ ~(\E u \in UserIds : users[u].email = e
                       /\ CredentialMatches(pw, users[u].hashed_password))) =>
              /\ resp'.status = 401
              /\ resp'.message = "Invalid credentials"
         /\ resp'.status # 200 =>
              /\ resp'.token = NoToken
              /\ issued' = issued
              /\ users' = users]_vars

\* A login was refused although accounts exist, after an earlier login succeeded.
C7_Witness ==
  /\ resp.op = "login" /\ resp.status = 401
  /\ Len(users) >= 1
  /\ issued # {}

\* ------------------------------------------------------------------------
\* Password reset (auth.py lines 101-176, app.py forgot / reset routes)
\* ------------------------------------------------------------------------
\* A reset token is secrets.token_urlsafe(32), unique per row: it is modelled
\* by the row's position in the table; 0 is a value that names no row.
ResetTokenIds == 1..Len(reset_tokens)

\* Variant: earlier tokens are left as they are
InvalidateTokens_Skip(tokens, uid) == tokens

\* update({"used": True}) on the user's unused tokens
InvalidateTokens(tokens, uid) ==
  [t \in 1..Len(tokens) |->
     IF tokens[t].user_id = uid /\ ~tokens[t].used
     THEN [tokens[t] EXCEPT !.used = TRUE] ELSE tokens[t]]

\* create_password_reset_token: the table afterwards (the user exists)
create_password_reset_token(uid) ==
  Append(InvalidateTokens(reset_tokens, uid),
         [user_id |-> uid, created_at |-> now,
          expires_at |-> now + PASSWORD_RESET_TOKEN_EXPIRE_HOURS, used |-> FALSE])

\* Variant: the expiry time is not looked at
verify_password_reset_token_NoExpiry(t) ==
  IF t \in ResetTokenIds /\ ~reset_tokens[t].used THEN reset_tokens[t].user_id ELSE 0

\* verify_password_reset_token: the user id, 0 for None
verify_password_reset_token(t) ==
  IF /\ t \in ResetTokenIds
     /\ ~reset_tokens[t].used
     /\ reset_tokens[t].expires_at > now
  THEN reset_tokens[t].user_id
  ELSE 0

\* Variant: the token row is left unused
use_password_reset_token_Skip(tokens, t) == tokens

\* use_password_reset_token: the table afterwards
use_password_reset_token(tokens, t) ==
  IF t \in 1..Len(tokens) /\ ~tokens[t].used
  THEN [tokens EXCEPT ![t].used = TRUE]
  ELSE tokens

\* reset_user_password: TRUE when it returns True; the tables afterwards
reset_user_password(t, new_password) ==
  IF verify_password_reset_token(t) = 0
  THEN /\ UNCHANGED <<users, reset_tokens>>
       /\ FALSE
  ELSE /\ users' = [users EXCEPT ![verify_password_reset_token(t)].hashed_password =
                      get_password_hash(new_password)]
       /\ reset_tokens' = use_password_reset_token(reset_tokens, t)

MSG_SENT == "Password reset instructions have been sent to your email address."
MSG_GENERIC ==
  "If an account with that email exists, password reset instructions have been sent."
MSG_MAIL_FAILED == "Failed to send password reset email. Please try again later."
MSG_BAD_TOKEN == "Invalid or expired reset token. Please request a new password reset."

\* The response of api_forgot_password (status, message) for an email that is
\* or is not registered, the e-mail delivery succeeding or not
api_forgot_password_response(registered, mail_ok) ==
  IF registered
  THEN IF mail_ok THEN Response("forgot_password", 200, MSG_SENT)
       ELSE Response("forgot_password", 500, MSG_MAIL_FAILED)
  ELSE Response("forgot_password", 200, MSG_GENERIC)

\* The page post_forgot_password renders (always 200; the text differs)
post_forgot_password_response(registered, mail_ok) ==
  IF registered
  THEN IF mail_ok THEN Response("forgot_password", 200, MSG_SENT)
       ELSE Response("forgot_password", 200, MSG_MAIL_FAILED)
  ELSE Response("forgot_password", 200, MSG_GENERIC)

ForgotPassword(email, mail_ok, response) ==
  /\ IF UserByEmail(email) = 0
     THEN UNCHANGED reset_tokens
     ELSE /\ Len(reset_tokens) < MaxResetTokens
          /\ reset_tokens' = create_password_reset_token(UserByEmail(email))
  /\ resp' = response
  /\ UNCHANGED <<users, resumes, files, jds, issued, now, procs>>

api_forgot_password(email, mail_ok) ==
  ForgotPassword(email, mail_ok,
                 api_forgot_password_response(UserByEmail(email) # 0, mail_ok))

post_forgot_password(email, mail_ok) ==
  ForgotPassword(email, mail_ok,
                 post_forgot_password_response(UserByEmail(email) # 0, mail_ok))

\* api_reset_password / post_reset_password: `bad_status` is what a rejected
\* request is answered with (400 by the API, the form page by the HTML route)
ResetPassword(op, t, new_password, confirm_password, bad_status) ==
  /\ IF new_password # confirm_password
     THEN /\ resp' = RefResponse(op, bad_status, "Passwords do not match.", t)
          /\ UNCHANGED <<users, reset_tokens>>
     ELSE IF Len(new_password) < MIN_PASSWORD_LEN
     THEN /\ resp' = RefResponse(op, bad_status,
                                 "Password must be at least 6 characters long.", t)
          /\ UNCHANGED <<users, reset_tokens>>
     ELSE IF verify_password_reset_token(t) # 0
     THEN /\ reset_user_password(t, new_password)
          /\ resp' = RefResponse(op, 200, "Password has been reset successfully.", t)
     ELSE /\ resp' = RefResponse(op, bad_status, MSG_BAD_TOKEN, t)
          /\ UNCHANGED <<users, reset_tokens>>
  /\ UNCHANGED <<resumes, files, jds, issued, now, procs>>

api_reset_password(t, new_password, confirm_password) ==
  ResetPassword("reset_password", t, new_password, confirm_password, 400)

\* Time passes
Tick(step, limit) ==
  /\ now + step <= limit
  /\ now' = now + step
  /\ UNCHANGED <<users, resumes, files, jds, reset_tokens, issued, procs, resp>>

ResetEmails == {"a@x.com", "b@x.com"}
ResetPasswords == {"secret2", "short"}
\* Tokens a client may submit: any token ever mailed, or one that names no row
SubmittedResetTokens == ResetTokenIds \cup {0}

RegisterForReset == \E e \in ResetEmails : api_register(e, "secret1")

ForgotApi == \E e \in ResetEmails, ok \in BOOLEAN : api_forgot_password(e, ok)

ForgotForm == \E e \in ResetEmails : post_forgot_password(e, TRUE)

ResetApi == \E t \in SubmittedResetTokens, pw \in ResetPasswords, c \in ResetPasswords :
  api_reset_password(t, pw, c)

ResetClock == Tick(ResetTick, MaxResetTicks * ResetTick)

NextReset ==
  RegisterForReset \/ ForgotApi \/ ForgotForm \/ ResetApi \/ ResetClock

SpecReset == Init /\ [][NextReset]_vars

\* ------------------------------------------------------------------------
\* Claims on password reset
\* ------------------------------------------------------------------------
\* C3: a reset token is single-use. A successful reset_user_password with token
\* t marks t used; a used token stays used; and with a used token
\* verify_password_reset_token returns None and reset_user_password fails and
\* leaves every user's password unchanged.
C3_TokenSingleUse ==
  [][/\ \A t \in SubmittedResetTokens, pw \in ResetPasswords :
          (resp'.ref = t /\ api_reset_password(t, pw, pw) /\ resp'.status = 200) =>
             (t \in ResetTokenIds /\ reset_tokens'[t].used)
     /\ \A t \in ResetTokenIds :
          reset_tokens[t].used =>
            /\ reset_tokens'[t].used
            /\ verify_password_reset_token(t) = 0
            /\ \A pw \in ResetPasswords, c \in ResetPasswords :
                 (resp'.ref = t /\ api_reset_password(t, pw, c)) =>
                   (resp'.status = 400 /\ users' = users)]_vars

\* A token was used for a reset and then submitted again, within its lifetime.
C3_Witness ==
  /\ resp.op = "reset_password" /\ resp.status = 400 /\ resp.message = MSG_BAD_TOKEN
  /\ resp.ref \in ResetTokenIds
  /\ reset_tokens[resp.ref].used
  /\ reset_tokens[resp.ref].expires_at > now
  /\ \A t \in ResetTokenIds : t > resp.ref => reset_tokens[t].user_id # reset_tokens[resp.ref].user_id
  /\ users[reset_tokens[resp.ref].user_id].hashed_password = get_password_hash("secret2")

\* C4: a reset with a token whose expires_at is not later than the current time
\* fails, changes no password and does not mark the token used; a reset
\* succeeds only less than PASSWORD_RESET_TOKEN_EXPIRE_HOURS after the token
\* was created.
C4_TokenExpires ==
  [][\A t \in ResetTokenIds, pw \in ResetPasswords, c \in ResetPasswords :
       (resp'.ref = t /\ api_reset_password(t, pw, c)) =>
         /\ reset_tokens[t].expires_at <= now =>
              /\ resp'.status = 400
              /\ users' = users
              /\ reset_tokens' = reset_tokens
         /\ resp'.status = 200 =>
              /\ now >= reset_tokens[t].created_at
              /\ now - reset_tokens[t].created_at < PASSWORD_RESET_TOKEN_EXPIRE_HOURS]_vars

\* An unused token was submitted after it expired and was refused.
C4_Witness ==
  /\ resp.op = "reset_password" /\ resp.status = 400 /\ resp.message = MSG_BAD_TOKEN
  /\ resp.ref \in ResetTokenIds
  /\ ~reset_tokens[resp.ref].used
  /\ reset_tokens[resp.ref].expires_at <= now

\* The tokens of user u that are still unused
UnusedTokens(u) ==
  {t \in ResetTokenIds : reset_tokens[t].user_id = u /\ ~reset_tokens[t].used}

\* C5: each user has at most one unused reset token, and it is the one created
\* last for that user.
C5_OneUnusedToken ==
  \A u \in UserIds :
    /\ Cardinality(UnusedTokens(u)) <= 1
    /\ \A t \in UnusedTokens(u) :
         \A t2 \in ResetTokenIds : reset_tokens[t2].user_id = u => t2 <= t

\* A user asked twice: the first token is invalidated, the second is live.
C5_Witness ==
  \E t1 \in ResetTokenIds, t2 \in ResetTokenIds :
    /\ t1 < t2
    /\ reset_tokens[t1].user_id = reset_tokens[t2].user_id
    /\ reset_tokens[t1].used
    /\ ~reset_tokens[t2].used
    /\ users[reset_tokens[t1].user_id].hashed_password = get_password_hash("secret1")

\* What the caller sees of a response
Visible(r) == <<r.status, r.message>>

\* C10: with e-mail delivery succeeding, every forgot-password request gets the
\* response (status and message) that a request for an unregistered email
\* gets, in the JSON route and in the form route: the response does not depend
\* on whether the email is registered.
C10_ForgotPasswordHidesRegistration ==
  [][\A e \in ResetEmails :
       (api_forgot_password(e, TRUE) =>
          Visible(resp') = Visible(api_forgot_password_response(FALSE, TRUE)))
       /\ (post_forgot_password(e, TRUE) =>
          Visible(resp') = Visible(post_forgot_password_response(FALSE, TRUE)))]_vars

\* ------------------------------------------------------------------------
\* Monthly quota (utils.py check_and_reset_quota / consume_quota)
\* ------------------------------------------------------------------------
\* The calendar month (year and month together) an instant falls in
Month(t) == t \div HoursPerMonth

IsExempt(us, u) == us[u].email = UNLIMITED_EMAIL

\* The users table after check_and_reset_quota(db, user): the counter restarts
\* when last_quota_reset lies in another month than today
QuotaReset(us, u) ==
  IF IsExempt(us, u) THEN us
  ELSE IF Month(us[u].last_quota_reset) # Month(now)
  THEN [us EXCEPT ![u].scan_count = 0, ![u].last_quota_reset = now]
  ELSE us

\* Variant: the remaining scans are not derived from the counter
check_and_reset_quota_NoLimit(u) == MAX_MONTHLY_SCANS

\* The value check_and_reset_quota returns
check_and_reset_quota(u) ==
  IF IsExempt(users, u) THEN UNLIMITED_REMAINING
  ELSE IF MAX_MONTHLY_SCANS - QuotaReset(users, u)[u].scan_count > 0
  THEN MAX_MONTHLY_SCANS - QuotaReset(users, u)[u].scan_count
  ELSE 0

\* The users table after consume_quota(db, user)
consume_quota(us, u) ==
  IF IsExempt(us, u) THEN us ELSE [us EXCEPT ![u].scan_count = @ + 1]

MSG_QUOTA == "Monthly quota exceeded. Please upgrade or wait for next month."
MSG_QUOTA_FORM == "Monthly quota exceeded"
MSG_NOT_AUTH == "Not authenticated"

\* ------------------------------------------------------------------------
\* Resumes, their files, job descriptions (app.py)
\* ------------------------------------------------------------------------
\* allowed_file: the lower-cased name ends with .pdf or .docx
allowed_file(filename) == filename \in {"my cv.pdf", "CV.DOCX", "new.pdf"}

\* re.sub(r'[^a-zA-Z0-9._-]', '_', filename)
Sanitize(filename) ==
  CASE filename = "my cv.pdf" -> "my_cv.pdf"
    [] OTHER -> filename

\* os.path.splitext(name)[1]
Extension(filename) ==
  CASE filename \in {"my cv.pdf", "new.pdf"} -> ".pdf"
    [] filename = "CV.DOCX" -> ".DOCX"
    [] filename = "notes.txt" -> ".txt"
    [] OTHER -> ""

\* f"{new_name}{file_extension}" unless new_name already ends with it
NewDisplayName(new_name, ext) ==
  IF new_name = "new.pdf" /\ ext = ".pdf" THEN new_name ELSE new_name \o ext

\* f"{user.id}_{int(time.time())}_{sanitized_name}"
UniqueName(u, name) == [uid |-> u, t |-> now, name |-> Sanitize(name)]

\* The id SQLite gives a new row of an INTEGER PRIMARY KEY table
NextId(rows) ==
  IF rows = {} THEN 1
  ELSE 1 + (CHOOSE i \in {r.id : r \in rows} : \A r \in rows : r.id <= i)

\* Variant: the lookup does not filter on user_id
OwnRow_AnyOwner(rows, rid, u) == {r \in rows : r.id = rid}

\* query(Model).filter(id == rid, user_id == u).first(): the rows found
OwnRow(rows, rid, u) == {r \in rows : r.id = rid /\ r.user_id = u}

RowOf(rows, rid, u) == CHOOSE r \in OwnRow(rows, rid, u) : TRUE

NewResume(u, filename) ==
  [id |-> NextId(resumes), user_id |-> u, filename |-> UniqueName(u, filename),
   original_filename |-> filename]

\* A job description row; `long` records len(content.strip()) >= 50
NewJd(u, long) == [id |-> NextId(jds), user_id |-> u, long |-> long]

\* RedirectResponse("/login") of the HTML routes
RedirectLogin(op) == RefResponse(op, 307, "/login", 0)

\* The part both upload routes share after authentication; `quota_msg`,
\* `type_msg` and `done` are what each route answers in the three outcomes
UploadAs(op, u, filename, quota_status, quota_msg, type_msg, done) ==
  IF check_and_reset_quota(u) <= 0
  THEN /\ resp' = RefResponse(op, quota_status, quota_msg, 0)
       /\ users' = QuotaReset(users, u)
       /\ UNCHANGED <<resumes, files>>
  ELSE IF ~allowed_file(filename)
  THEN /\ resp' = RefResponse(op, quota_status, type_msg, 0)
       /\ users' = QuotaReset(users, u)
       /\ UNCHANGED <<resumes, files>>
  ELSE /\ Cardinality(resumes) < MaxResumes
       /\ NextId(resumes) <= MaxRowId
       /\ files' = files \cup {UniqueName(u, filename)}
       /\ resumes' = resumes \cup {NewResume(u, filename)}
       /\ users' = consume_quota(QuotaReset(users, u), u)
       /\ resp' = [done EXCEPT !.ref = NextId(resumes)]

\* POST /api/upload
api_upload_resume(tok, filename) ==
  LET u == get_current_user_from_request(tok) IN
  /\ IF u = 0
     THEN /\ resp' = RefResponse("upload", 401, MSG_NOT_AUTH, 0)
          /\ UNCHANGED <<users, resumes, files>>
     ELSE UploadAs("upload", u, filename, 400, MSG_QUOTA,
                   "Only PDF or DOCX files are allowed",
                   Response("upload", 200, "Resume uploaded successfully"))
  /\ UNCHANGED <<jds, reset_tokens, issued, now, procs>>

\* POST /upload
post_upload(tok, filename) ==
  LET u == get_current_user_from_request(tok) IN
  /\ IF u = 0
     THEN /\ resp' = RedirectLogin("upload_form")
          /\ UNCHANGED <<users, resumes, files>>
     ELSE UploadAs("upload_form", u, filename, 200, MSG_QUOTA_FORM,
                   "Only PDF or DOCX allowed",
                   Response("upload_form", 302, "/dashboard"))
  /\ UNCHANGED <<jds, reset_tokens, issued, now, procs>>

\* GET /dashboard
dashboard(tok) ==
  LET u == get_current_user_from_request(tok) IN
  /\ IF u = 0
     THEN /\ resp' = RedirectLogin("dashboard")
          /\ UNCHANGED users
     ELSE /\ resp' = RefResponse("dashboard", 200, "dashboard.html", 0)
          /\ users' = QuotaReset(users, u)
  /\ UNCHANGED <<resumes, files, jds, reset_tokens, issued, now, procs>>

\* GET /api/auth/me
api_get_current_user(tok) ==
  LET u == get_current_user_from_request(tok) IN
  /\ resp' = IF u = 0 THEN RefResponse("me", 401, MSG_NOT_AUTH, 0)
             ELSE RefResponse("me", 200, users[u].email, 0)
  /\ UNCHANGED <<users, resumes, files, jds, reset_tokens, issued, now, procs>>

\* GET /resume/{resume_id}
get_resume_api(tok, rid) ==
  LET u == get_current_user_from_request(tok) IN
  /\ resp' = IF u = 0 THEN RefResponse("get_resume", 401, MSG_NOT_AUTH, rid)
             ELSE IF OwnRow(resumes, rid, u) = {}
             THEN RefResponse("get_resume", 404, "Resume not found", rid)
             ELSE RefResponse("get_resume", 200,
                              RowOf(resumes, rid, u).original_filename, rid)
  /\ UNCHANGED <<users, resumes, files, jds, reset_tokens, issued, now, procs>>

\* DELETE /resume/{resume_id}
delete_resume_api(tok, rid) ==
  LET u == get_current_user_from_request(tok) IN
  /\ IF u = 0
     THEN /\ resp' = RefResponse("delete_resume", 401, MSG_NOT_AUTH, rid)
          /\ UNCHANGED <<resumes, files>>
     ELSE IF OwnRow(resumes, rid, u) = {}
     THEN /\ resp' = RefResponse("delete_resume", 404, "Resume not found", rid)
          /\ UNCHANGED <<resumes, files>>
     ELSE /\ files' = files \ {RowOf(resumes, rid, u).filename}
          /\ resumes' = resumes \ {RowOf(resumes, rid, u)}
          /\ resp' = RefResponse("delete_resume", 200, "Resume deleted successfully", rid)
  /\ UNCHANGED <<users, jds, reset_tokens, issued, now, procs>>

\* PUT /resume/{resume_id}/name
update_resume_name(tok, rid, new_name) ==
  LET u == get_current_user_from_request(tok) IN
  /\ IF u = 0
     THEN /\ resp' = RedirectLogin("rename_resume")
          /\ UNCHANGED <<resumes, files>>
     ELSE IF OwnRow(resumes, rid, u) = {}
     THEN /\ resp' = RefResponse("rename_resume", 200, "Resume not found", rid)
          /\ UNCHANGED <<resumes, files>>
     ELSE LET resume == RowOf(resumes, rid, u)
              new_display_name ==
                NewDisplayName(new_name, Extension(resume.original_filename))
              new_physical_filename == UniqueName(u, new_display_name)
          IN /\ files' = IF resume.filename \in files
                         THEN (files \ {resume.filename}) \cup {new_physical_filename}
                         ELSE files
             /\ resumes' = (resumes \ {resume}) \cup
                   {[resume EXCEPT !.filename = new_physical_filename,
                                   !.original_filename = new_display_name]}
             /\ resp' = RefResponse("rename_resume", 200,
                                    "Resume name updated successfully", rid)
  /\ UNCHANGED <<users, jds, reset_tokens, issued, now, procs>>


\* POST /job-descriptions
create_job_description_api(tok, long) ==
  LET u == get_current_user_from_request(tok) IN
  /\ IF u = 0
     THEN /\ resp' = RefResponse("create_jd", 401, MSG_NOT_AUTH, 0)
          /\ UNCHANGED jds
     ELSE /\ Cardinality(jds) < MaxJds
          /\ NextId(jds) <= MaxRowId
          /\ jds' = jds \cup {NewJd(u, long)}
          /\ resp' = RefResponse("create_jd", 200,
                                 "Job description created successfully", NextId(jds))
  /\ UNCHANGED <<users, resumes, files, reset_tokens, issued, now, procs>>

\* The part both JD delete routes share after authentication
DeleteJdAs(op, u, jid, missing_status) ==
  IF OwnRow(jds, jid, u) = {}
  THEN /\ resp' = RefResponse(op, missing_status, "Job description not found", jid)
       /\ UNCHANGED jds
  ELSE /\ jds' = jds \ {RowOf(jds, jid, u)}
       /\ resp' = RefResponse(op, 200, "Job description deleted successfully", jid)

\* DELETE /job-descriptions/{jd_id}
delete_job_description_api(tok, jid) ==
  LET u == get_current_user_from_request(tok) IN
  /\ IF u = 0
     THEN /\ resp' = RefResponse("delete_jd", 401, MSG_NOT_AUTH, jid)
          /\ UNCHANGED jds
     ELSE DeleteJdAs("delete_jd", u, jid, 404)
  /\ UNCHANGED <<users, resumes, files, reset_tokens, issued, now, procs>>

\* DELETE /jd/{jd_id}
delete_jd(tok, jid) ==
  LET u == get_current_user_from_request(tok) IN
  /\ IF u = 0
     THEN /\ resp' = RefResponse("delete_jd_form", 200, "Authentication required", jid)
          /\ UNCHANGED jds
     ELSE DeleteJdAs("delete_jd_form", u, jid, 200)
  /\ UNCHANGED <<users, resumes, files, reset_tokens, issued, now, procs>>

\* POST /compare. jd_id 0 stands for an absent jd_id (0 itself is falsy too).
post_compare(tok, rid, jid, jd_title, jd_company, jd_content_form) ==
  LET u == get_current_user_from_request(tok)
      jd_content == ""      \* line 1415 replaces the form value
  IN
  /\ IF u = 0
     THEN /\ resp' = RedirectLogin("compare")
          /\ UNCHANGED users
     ELSE IF check_and_reset_quota(u) <= 0
     THEN /\ resp' = RefResponse("compare", 200, MSG_QUOTA, rid)
          /\ users' = QuotaReset(users, u)
     ELSE IF OwnRow(resumes, rid, u) = {}
     THEN /\ resp' = RefResponse("compare", 200, "Resume not found", rid)
          /\ users' = QuotaReset(users, u)
     ELSE IF jid # 0 /\ OwnRow(jds, jid, u) = {}
     THEN /\ resp' = RefResponse("compare", 200, "Job description not found", rid)
          /\ users' = QuotaReset(users, u)
     ELSE IF jid # 0 /\ ~RowOf(jds, jid, u).long
     THEN /\ resp' = RefResponse("compare", 200,
                                 "Job description content is too short", rid)
          /\ users' = QuotaReset(users, u)
     ELSE IF jid = 0 /\ (~Truthy(jd_title) \/ ~Truthy(jd_company) \/ ~Truthy(jd_content))
     THEN /\ resp' = RefResponse("compare", 200,
                                 "Please provide job title, company, and content", rid)
          /\ users' = QuotaReset(users, u)
     ELSE /\ resp' = RefResponse("compare", 200, "analysis_results", rid)
          /\ users' = consume_quota(QuotaReset(users, u), u)
  /\ UNCHANGED <<resumes, files, jds, reset_tokens, issued, now, procs>>

\* POST /cover-letter
post_cover_letter(tok, rid, jid) ==
  LET u == get_current_user_from_request(tok) IN
  /\ IF u = 0
     THEN /\ resp' = RedirectLogin("cover_letter")
          /\ UNCHANGED users
     ELSE IF check_and_reset_quota(u) <= 0
     THEN /\ resp' = RefResponse("cover_letter", 200, MSG_QUOTA, rid)
          /\ users' = QuotaReset(users, u)
     ELSE IF OwnRow(resumes, rid, u) = {} \/ OwnRow(jds, jid, u) = {}
     THEN /\ resp' = RefResponse("cover_letter", 200,
                                 "Resume or job description not found", rid)
          /\ users' = QuotaReset(users, u)
     ELSE /\ resp' = RefResponse("cover_letter", 200, "cover_letter", rid)
          /\ users' = consume_quota(QuotaReset(users, u), u)
  /\ UNCHANGED <<resumes, files, jds, reset_tokens, issued, now, procs>>


\* POST /improve
post_improve(tok, rid) ==
  LET u == get_current_user_from_request(tok) IN
  /\ IF u = 0
     THEN /\ resp' = RedirectLogin("improve")
          /\ UNCHANGED users
     ELSE IF check_and_reset_quota(u) <= 0
     THEN /\ resp' = RefResponse("improve", 200, MSG_QUOTA, rid)
          /\ users' = QuotaReset(users, u)
     ELSE IF OwnRow(resumes, rid, u) = {}
     THEN /\ resp' = RefResponse("improve", 200, "Resume not found", rid)
          /\ users' = QuotaReset(users, u)
     ELSE /\ resp' = RefResponse("improve", 200, "improvement_results", rid)
          /\ users' = consume_quota(QuotaReset(users, u), u)
  /\ UNCHANGED <<resumes, files, jds, reset_tokens, issued, now, procs>>

\* ------------------------------------------------------------------------
\* Quota: the requests of a limited account over several months
\* ------------------------------------------------------------------------
QuotaEmails == {"a@x.com"}
UploadNames == {"my cv.pdf", "notes.txt"}
\* Ids a client may name: those of the rows present, or one that names no row
SubmittedResumeIds == {r.id : r \in resumes} \cup {NextId(resumes)}
SubmittedJdIds == {j.id : j \in jds} \cup {NextId(jds)}

QuotaRegister == \E e \in QuotaEmails : api_register(e, "secret1")

QuotaLogin == \E e \in QuotaEmails : api_login(e, "secret1")

QuotaUploadApi == \E tok \in issued, f \in UploadNames : api_upload_resume(tok, f)

QuotaUploadForm == \E tok \in issued, f \in UploadNames : post_upload(tok, f)

QuotaCreateJd == \E tok \in issued : create_job_description_api(tok, TRUE)

QuotaCompare == \E tok \in issued, rid \in SubmittedResumeIds, jid \in SubmittedJdIds :
  post_compare(tok, rid, jid, NULL, NULL, NULL)

QuotaCoverLetter == \E tok \in issued, rid \in SubmittedResumeIds, jid \in SubmittedJdIds :
  post_cover_letter(tok, rid, jid)

QuotaImprove == \E tok \in issued, rid \in SubmittedResumeIds : post_improve(tok, rid)

QuotaDashboard == \E tok \in issued : dashboard(tok)

MonthClock == Tick(HoursPerMonth, MaxMonths * HoursPerMonth)

NextQuota ==
  \/ QuotaRegister \/ QuotaLogin \/ QuotaUploadApi \/ QuotaUploadForm \/ QuotaCreateJd
  \/ QuotaCompare \/ QuotaCoverLetter \/ QuotaImprove \/ QuotaDashboard \/ MonthClock

SpecQuota == Init /\ [][NextQuota]_vars

\* The step answered with the quota error and consumed or stored nothing
QuotaRejected ==
  /\ resp'.message \in {MSG_QUOTA, MSG_QUOTA_FORM}
  /\ users' = users
  /\ resumes' = resumes
  /\ files' = files

\* User u is limited and has used up the scans of the current month
QuotaUsedUp(u) ==
  /\ users[u].email # UNLIMITED_EMAIL
  /\ users[u].scan_count >= MAX_MONTHLY_SCANS
  /\ Month(users[u].last_quota_reset) = Month(now)

\* C1: for every user other than the exempt account scan_count never exceeds
\* MAX_MONTHLY_SCANS, and every upload, compare, cover-letter or improve request
\* of a user whose count for the current month has reached MAX_MONTHLY_SCANS is
\* answered with the 'Monthly quota exceeded' error and consumes nothing.
C1_QuotaEnforced ==
  [][/\ \A u \in 1..Len(users') :
          users'[u].email # UNLIMITED_EMAIL =>
            users'[u].scan_count <= MAX_MONTHLY_SCANS
     /\ \A tok \in issued :
          (get_current_user_from_request(tok) # 0
             /\ QuotaUsedUp(get_current_user_from_request(tok))) =>
            /\ \A f \in UploadNames :
                 /\ (resp'.op = "upload" /\ api_upload_resume(tok, f)) => QuotaRejected
                 /\ (resp'.op = "upload_form" /\ post_upload(tok, f)) => QuotaRejected
            /\ \A rid \in SubmittedResumeIds, jid \in SubmittedJdIds :
                 /\ (resp'.op = "compare" /\ post_compare(tok, rid, jid, NULL, NULL, NULL))
                      => QuotaRejected
                 /\ (resp'.op = "cover_letter" /\ post_cover_letter(tok, rid, jid))
                      => QuotaRejected
                 /\ (resp'.op = "improve" /\ post_improve(tok, rid)) => QuotaRejected]_vars

\* A limited user used all scans of the month and the next request was refused,
\* after an earlier month's count had been restarted.
C1_Witness ==
  /\ resp.message = MSG_QUOTA
  /\ \E u \in UserIds :
       /\ users[u].scan_count = MAX_MONTHLY_SCANS
       /\ users[u].last_quota_reset >= HoursPerMonth
  /\ resumes # {}

\* ------------------------------------------------------------------------
\* Resumes and job descriptions of two accounts (one limited, one exempt)
\* ------------------------------------------------------------------------
ResumeEmails == {"a@x.com", UNLIMITED_EMAIL}

\* The two accounts sign up in this order
ResumeSignUps == <<"a@x.com", UNLIMITED_EMAIL>>

ResumeRegister ==
  /\ Len(users) < Len(ResumeSignUps)
  /\ api_register(ResumeSignUps[Len(users) + 1], "secret1")

ResumeLogin == \E e \in ResumeEmails : api_login(e, "secret1")

ResumeUpload == \E tok \in issued : api_upload_resume(tok, "my cv.pdf")

ResumeGet == \E tok \in issued, rid \in SubmittedResumeIds : get_resume_api(tok, rid)

ResumeDelete == \E tok \in issued, rid \in SubmittedResumeIds : delete_resume_api(tok, rid)

ResumeRename == \E tok \in issued, rid \in SubmittedResumeIds :
  update_resume_name(tok, rid, "new")

JdCreate == \E tok \in issued : create_job_description_api(tok, TRUE)

JdDelete == \E tok \in issued, jid \in SubmittedJdIds : delete_job_description_api(tok, jid)

JdDeleteForm == \E tok \in issued, jid \in SubmittedJdIds : delete_jd(tok, jid)

ResumeCompare == \E tok \in issued, rid \in SubmittedResumeIds, jid \in SubmittedJdIds :
  post_compare(tok, rid, jid, NULL, NULL, NULL)

ResumeCoverLetter == \E tok \in issued, rid \in SubmittedResumeIds, jid \in SubmittedJdIds :
  post_cover_letter(tok, rid, jid)

ResumeImprove == \E tok \in issued, rid \in SubmittedResumeIds : post_improve(tok, rid)

NextResume ==
  \/ ResumeRegister \/ ResumeLogin \/ ResumeUpload \/ ResumeGet \/ ResumeDelete
  \/ ResumeRename \/ JdCreate \/ JdDelete \/ JdDeleteForm \/ ResumeCompare
  \/ ResumeCoverLetter \/ ResumeImprove

SpecResume == Init /\ [][NextResume]_vars

\* ------------------------------------------------------------------------
\* Claims on per-user isolation
\* ------------------------------------------------------------------------
NotFoundMessages ==
  {"Resume not found", "Job description not found", "Resume or job description not found"}

\* The resume / job description the request names belongs to another user
ForeignResume(rid, u) == \E r \in resumes : r.id = rid /\ r.user_id # u
ForeignJd(jid, u) == \E j \in jds : j.id = jid /\ j.user_id # u

\* ... belongs to the caller
OwnsResume(rid, u) == \E r \in resumes : r.id = rid /\ r.user_id = u
OwnsJd(jid, u) == \E j \in jds : j.id = jid /\ j.user_id = u

\* The step left every row of the other users, and the file of each, as it was
OthersUntouched(u) ==
  /\ \A r \in resumes :
       r.user_id # u => (r \in resumes' /\ (r.filename \in files <=> r.filename \in files'))
  /\ \A j \in jds : j.user_id # u => j \in jds'
  /\ \A v \in UserIds : v # u => users'[v] = users[v]

\* The step served the request (it read, changed or removed what was named)
Served ==
  /\ resp'.status = 200
  /\ resp'.message \notin NotFoundMessages \cup
       {MSG_QUOTA, "Job description content is too short",
        "Please provide job title, company, and content", "Authentication required"}

\* What the claim says of one step `step` of caller u: `foreign` tells that
\* the request names a record of another user, `own` that all it names is u's
IsolatedAsClaimed(step, u, foreign, own) ==
  step =>
    /\ OthersUntouched(u)
    /\ Served => own
    /\ foreign => resp'.message \in NotFoundMessages

\* The same, with the quota error in place of 'not found' when the route
\* checks the quota before the lookup and the caller's quota is used up
Isolated(step, u, foreign, own, quota_first) ==
  step =>
    /\ OthersUntouched(u)
    /\ Served => own
    /\ foreign => IF quota_first /\ QuotaUsedUp(u)
                  THEN resp'.message = MSG_QUOTA
                  ELSE resp'.message \in NotFoundMessages

\* C8 as stated: a request authenticated as user u reads, modifies or deletes
\* a resume or job description only if it is u's own, leaves the rows and files
\* of other users unchanged, and for a record of another user reports not found
\* (get, delete, rename, compare, cover letter, improve, JD delete).
C8_ForeignRecordNotFound ==
  [][\A tok \in issued :
       LET u == get_current_user_from_request(tok) IN
       u # 0 =>
         /\ resp'.op = "get_resume" =>
              \A rid \in SubmittedResumeIds :
                IsolatedAsClaimed(resp'.ref = rid /\ get_resume_api(tok, rid),
               u, ForeignResume(rid, u), OwnsResume(rid, u))
         /\ resp'.op = "delete_resume" =>
              \A rid \in SubmittedResumeIds :
                IsolatedAsClaimed(resp'.ref = rid /\ delete_resume_api(tok, rid),
               u, ForeignResume(rid, u), OwnsResume(rid, u))
         /\ resp'.op = "rename_resume" =>
              \A rid \in SubmittedResumeIds :
                IsolatedAsClaimed(resp'.ref = rid /\ update_resume_name(tok, rid, "new"),
               u, ForeignResume(rid, u), OwnsResume(rid, u))
         /\ resp'.op = "compare" =>
              \A rid \in SubmittedResumeIds, jid \in SubmittedJdIds :
                IsolatedAsClaimed(resp'.ref = rid /\ post_compare(tok, rid, jid, NULL, NULL, NULL),
               u, ForeignResume(rid, u) \/ ForeignJd(jid, u),
               OwnsResume(rid, u) /\ OwnsJd(jid, u))
         /\ resp'.op = "cover_letter" =>
              \A rid \in SubmittedResumeIds, jid \in SubmittedJdIds :
                IsolatedAsClaimed(resp'.ref = rid /\ post_cover_letter(tok, rid, jid),
               u, ForeignResume(rid, u) \/ ForeignJd(jid, u),
               OwnsResume(rid, u) /\ OwnsJd(jid, u))
         /\ resp'.op = "improve" =>
              \A rid \in SubmittedResumeIds :
                IsolatedAsClaimed(resp'.ref = rid /\ post_improve(tok, rid),
               u, ForeignResume(rid, u), OwnsResume(rid, u))
         /\ resp'.op = "delete_jd" =>
              \A jid \in SubmittedJdIds :
                IsolatedAsClaimed(resp'.ref = jid /\ delete_job_description_api(tok, jid),
               u, ForeignJd(jid, u), OwnsJd(jid, u))
         /\ resp'.op = "delete_jd_form" =>
              \A jid \in SubmittedJdIds :
                IsolatedAsClaimed(resp'.ref = jid /\ delete_jd(tok, jid),
               u, ForeignJd(jid, u), OwnsJd(jid, u))]_vars

\* C8, amended: as above, except that compare, cover letter and improve, which
\* check the quota before looking the record up, answer a caller whose monthly
\* quota is used up with the quota error instead of not found.
C8_Isolation ==
  [][\A tok \in issued :
       LET u == get_current_user_from_request(tok) IN
       u # 0 =>
         /\ resp'.op = "get_resume" =>
              \A rid \in SubmittedResumeIds :
                Isolated(resp'.ref = rid /\ get_resume_api(tok, rid),
               u, ForeignResume(rid, u), OwnsResume(rid, u), FALSE)
         /\ resp'.op = "delete_resume" =>
              \A rid \in SubmittedResumeIds :
                Isolated(resp'.ref = rid /\ delete_resume_api(tok, rid),
               u, ForeignResume(rid, u), OwnsResume(rid, u), FALSE)
         /\ resp'.op = "rename_resume" =>
              \A rid \in SubmittedResumeIds :
                Isolated(resp'.ref = rid /\ update_resume_name(tok, rid, "new"),
               u, ForeignResume(rid, u), OwnsResume(rid, u), FALSE)
         /\ resp'.op = "compare" =>
              \A rid \in SubmittedResumeIds, jid \in SubmittedJdIds :
                Isolated(resp'.ref = rid /\ post_compare(tok, rid, jid, NULL, NULL, NULL),
               u, ForeignResume(rid, u) \/ ForeignJd(jid, u),
               OwnsResume(rid, u) /\ OwnsJd(jid, u), TRUE)
         /\ resp'.op = "cover_letter" =>
              \A rid \in SubmittedResumeIds, jid \in SubmittedJdIds :
                Isolated(resp'.ref = rid /\ post_cover_letter(tok, rid, jid),
               u, ForeignResume(rid, u) \/ ForeignJd(jid, u),
               OwnsResume(rid, u) /\ OwnsJd(jid, u), TRUE)
         /\ resp'.op = "improve" =>
              \A rid \in SubmittedResumeIds :
                Isolated(resp'.ref = rid /\ post_improve(tok, rid),
               u, ForeignResume(rid, u), OwnsResume(rid, u), TRUE)
         /\ resp'.op = "delete_jd" =>
              \A jid \in SubmittedJdIds :
                Isolated(resp'.ref = jid /\ delete_job_description_api(tok, jid),
               u, ForeignJd(jid, u), OwnsJd(jid, u), FALSE)
         /\ resp'.op = "delete_jd_form" =>
              \A jid \in SubmittedJdIds :
                Isolated(resp'.ref = jid /\ delete_jd(tok, jid),
               u, ForeignJd(jid, u), OwnsJd(jid, u), FALSE)]_vars

\* The limited user, quota used up, asked for a comparison with a resume of
\* the other user while holding a resume of their own; both rows are in place.
C8_Witness ==
  /\ resp.op = "compare" /\ resp.message = MSG_QUOTA
  /\ \E r \in resumes : r.id = resp.ref /\ users[r.user_id].email = UNLIMITED_EMAIL
                        /\ r.filename \in files
  /\ \E r \in resumes : users[r.user_id].email = "a@x.com"
  /\ \E u \in UserIds : users[u].scan_count = MAX_MONTHLY_SCANS

\* ------------------------------------------------------------------------
\* Sessions: requests with every kind of token, while time passes
\* ------------------------------------------------------------------------
\* Tokens that carry the server's signature but that no login of this
\* database produced: one without 'sub', one for an email that is not registered
OrphanTokens ==
  {Jwt("", now + ACCESS_TOKEN_EXPIRE_DAYS * HoursPerDay, SECRET_KEY),
   Jwt("ghost@x.com", now + ACCESS_TOKEN_EXPIRE_DAYS * HoursPerDay, SECRET_KEY)}

SessionTokens == PresentedTokens \cup OrphanTokens

SessionEmails == {"a@x.com"}

SessionRegister == \E e \in SessionEmails : api_register(e, "secret1")

SessionLogin == \E e \in SessionEmails : api_login(e, "secret1")

SessionMe == \E tok \in SessionTokens : api_get_current_user(tok)

SessionUpload == \E tok \in SessionTokens : api_upload_resume(tok, "my cv.pdf")

SessionGet == \E tok \in SessionTokens, rid \in SubmittedResumeIds : get_resume_api(tok, rid)

SessionDelete == \E tok \in SessionTokens, rid \in SubmittedResumeIds :
  delete_resume_api(tok, rid)

SessionCreateJd == \E tok \in SessionTokens : create_job_description_api(tok, TRUE)

SessionDeleteJd == \E tok \in SessionTokens, jid \in SubmittedJdIds :
  delete_job_description_api(tok, jid)

SessionClock == Tick(SessionTick, MaxSessionTicks * SessionTick)

NextSession ==
  \/ SessionRegister \/ SessionLogin \/ SessionMe \/ SessionUpload \/ SessionGet
  \/ SessionDelete \/ SessionCreateJd \/ SessionDeleteJd \/ SessionClock

SpecSession == Init /\ [][NextSession]_vars

\* The token is signed with the server key, has not expired, and its 'sub' is
\* the email of an existing user
ValidToken(tok) ==
  /\ tok.kind = "jwt"
  /\ tok.key = SECRET_KEY
  /\ tok.exp >= now
  /\ \E u \in UserIds : users[u].email = tok.sub

\* The step answered 401 'Not authenticated' and changed no table and no file
Refused401 ==
  /\ resp'.status = 401
  /\ resp'.message = MSG_NOT_AUTH
  /\ UNCHANGED <<users, resumes, files, jds, reset_tokens>>

\* C6: get_current_user_from_request returns a user only for a token that is
\* validly signed, unexpired and whose 'sub' is the email of an existing user,
\* and then that user (seen through GET /api/auth/me); for any other token
\* (missing, malformed, wrongly signed, expired, 'sub' of no user) it returns
\* None and me, upload, resume get / delete and job-description create / delete
\* answer 401 'Not authenticated' and change no database state.
C6_OnlyValidTokensAuthenticate ==
  [][/\ resp'.op = "me" =>
          \A tok \in SessionTokens :
            api_get_current_user(tok) =>
              IF ValidToken(tok)
              THEN /\ get_current_user_from_request(tok) # 0
                   /\ users[get_current_user_from_request(tok)].email = tok.sub
                   /\ resp'.status = 200
                   /\ resp'.message = tok.sub
              ELSE /\ get_current_user_from_request(tok) = 0
                   /\ Refused401
     /\ resp'.op = "upload" =>
          \/ Refused401
          \/ \A tok \in SessionTokens :
               ~ValidToken(tok) => ~api_upload_resume(tok, "my cv.pdf")
     /\ resp'.op = "create_jd" =>
          \/ Refused401
          \/ \A tok \in SessionTokens :
               ~ValidToken(tok) => ~create_job_description_api(tok, TRUE)
     /\ resp'.op = "get_resume" =>
          \/ Refused401
          \/ \A tok \in SessionTokens :
               ~ValidToken(tok) => ~get_resume_api(tok, resp'.ref)
     /\ resp'.op = "delete_resume" =>
          \/ Refused401
          \/ \A tok \in SessionTokens :
               ~ValidToken(tok) => ~delete_resume_api(tok, resp'.ref)
     /\ resp'.op = "delete_jd" =>
          \/ Refused401
          \/ \A tok \in SessionTokens :
               ~ValidToken(tok) => ~delete_job_description_api(tok, resp'.ref)]_vars

\* A delete naming an existing resume was refused with 401; the row and its
\* file are in place, and every session token issued to the owner has expired.
C6_Witness ==
  /\ resp.op = "delete_resume" /\ resp.status = 401
  /\ \E r \in resumes :
       /\ r.id = resp.ref
       /\ r.filename \in files
       /\ \A tok \in issued : tok.sub = users[r.user_id].email => tok.exp < now

\* ------------------------------------------------------------------------
\* Profile (app.py PUT /api/profile, PUT /profile, POST /profile/update)
\* ------------------------------------------------------------------------
\* ProfileUpdateRequest: a value per field, NULL for a field left out (None).
\* The bookkeeping column updated_at is not modelled.
ProfileRequests ==
  {[f \in ProfileFields |->
      IF f = "first_name" THEN fn ELSE IF f = "bio" THEN b ELSE NULL] :
     fn \in {NULL, "Zed"}, b \in {NULL, "hello"}}

\* "if request.<field> is not None: user.<field> = request.<field>"
ApplyProfile(row, req) ==
  [row EXCEPT !.profile = [f \in ProfileFields |-> IF req[f] # NULL THEN req[f] ELSE @[f]]]

\* PUT /api/profile. The handler receives the parsed body only: `tok`, what
\* the HTTP request carries, does not reach it, and the row it updates is
\* db.query(User).first().
update_profile_api(tok, req) ==
  LET user == FirstUser IN
  /\ IF user = 0
     THEN /\ resp' = Response("update_profile", 401, MSG_NOT_AUTH)
          /\ UNCHANGED users
     ELSE /\ users' = [users EXCEPT ![user] = ApplyProfile(@, req)]
          /\ resp' = Response("update_profile", 200, "Profile updated successfully")
  /\ UNCHANGED <<resumes, files, jds, reset_tokens, issued, now, procs>>

\* PUT /profile
update_profile_compat(tok, req) == update_profile_api(tok, req)

\* POST /profile/update
update_profile(tok, req) ==
  LET u == get_current_user_from_request(tok) IN
  /\ IF u = 0
     THEN /\ resp' = RedirectLogin("update_profile_form")
          /\ UNCHANGED users
     ELSE /\ users' = [users EXCEPT ![u] = ApplyProfile(@, req)]
          /\ resp' = Response("update_profile_form", 302,
                              "/profile?success=Profile updated successfully")
  /\ UNCHANGED <<resumes, files, jds, reset_tokens, issued, now, procs>>

\* The two accounts sign up in this order
ProfileSignUps == <<"a@x.com", "b@x.com">>

ProfileRegister ==
  /\ Len(users) < Len(ProfileSignUps)
  /\ api_register(ProfileSignUps[Len(users) + 1], "secret1")

ProfileLogin == \E e \in {"a@x.com", "b@x.com"} : api_login(e, "secret1")

ProfileUpdateApi == \E tok \in PresentedTokens, req \in ProfileRequests :
  update_profile_api(tok, req)

ProfileUpdateCompat == \E tok \in PresentedTokens, req \in ProfileRequests :
  update_profile_compat(tok, req)

ProfileUpdateForm == \E tok \in PresentedTokens, req \in ProfileRequests :
  update_profile(tok, req)

NextProfile ==
  \/ ProfileRegister \/ ProfileLogin \/ ProfileUpdateApi \/ ProfileUpdateCompat
  \/ ProfileUpdateForm

SpecProfile == Init /\ [][NextProfile]_vars

\* C9: PUT /api/profile and PUT /profile answer 401 'Not authenticated' to a
\* caller who is not authenticated and change nothing; when they answer 200 the
\* caller is authenticated and only the caller's own row may differ afterwards.
C9_ProfileUpdateAuthenticated ==
  [][resp'.op = "update_profile" =>
       \A tok \in PresentedTokens, req \in ProfileRequests :
         (update_profile_api(tok, req) \/ update_profile_compat(tok, req)) =>
           /\ get_current_user_from_request(tok) = 0 =>
                (resp'.status = 401 /\ resp'.message = MSG_NOT_AUTH /\ users' = users)
           /\ resp'.status = 200 =>
                /\ get_current_user_from_request(tok) # 0
                /\ \A v \in UserIds :
                     v # get_current_user_from_request(tok) => users'[v] = users[v]]_vars

\* ------------------------------------------------------------------------
\* Comparison against an ad-hoc job description (POST /compare without jd_id)
\* ------------------------------------------------------------------------
CompareEmails == {"a@x.com"}

\* Form fields jd_title, jd_company, jd_content: absent, empty or filled in
FormTexts == {NULL, "", "text"}

CompareRegister == \E e \in CompareEmails : api_register(e, "secret1")

CompareLogin == \E e \in CompareEmails : api_login(e, "secret1")

CompareUpload == \E tok \in issued : api_upload_resume(tok, "my cv.pdf")

CompareCreateJd == \E tok \in issued, long \in BOOLEAN : create_job_description_api(tok, long)

CompareSaved == \E tok \in issued, rid \in SubmittedResumeIds, jid \in SubmittedJdIds :
  post_compare(tok, rid, jid, NULL, NULL, NULL)

CompareAdHoc ==
  \E tok \in issued, rid \in SubmittedResumeIds, t \in FormTexts, c \in FormTexts,
     body \in FormTexts :
    post_compare(tok, rid, 0, t, c, body)

NextCompare ==
  \/ CompareRegister \/ CompareLogin \/ CompareUpload \/ CompareCreateJd
  \/ CompareSaved \/ CompareAdHoc

SpecCompare == Init /\ [][NextCompare]_vars

MSG_PROVIDE_JD == "Please provide job title, company, and content"

\* C11: a compare request without jd_id whose title, company and content are
\* all non-empty, made by a user with quota left who owns the resume, returns
\* analysis results and consumes one quota unit; the 'Please provide job title,
\* company, and content' error is returned only when one of the three is missing.
C11_AdHocCompare ==
  [][resp'.op = "compare" =>
       \A tok \in issued, rid \in SubmittedResumeIds, t \in FormTexts, c \in FormTexts,
          body \in FormTexts :
         (resp'.ref = rid /\ post_compare(tok, rid, 0, t, c, body)) =>
           LET u == get_current_user_from_request(tok) IN
           /\ (/\ u # 0
               /\ check_and_reset_quota(u) > 0
               /\ OwnRow(resumes, rid, u) # {}
               /\ Truthy(t) /\ Truthy(c) /\ Truthy(body)) =>
                /\ resp'.message = "analysis_results"
                /\ users'[u].scan_count = QuotaReset(users, u)[u].scan_count + 1
           /\ resp'.message = MSG_PROVIDE_JD =>
                (~Truthy(t) \/ ~Truthy(c) \/ ~Truthy(body))]_vars

\* ------------------------------------------------------------------------
\* Claim on registering an existing email
\* ------------------------------------------------------------------------
\* C12: when create_user finds the email already registered it raises
\* ValueError('Email already registered'): POST /api/auth/register answers 400
\* with that message, the form route shows the same error, no INSERT is
\* started, and the users table (the existing user's password included) is
\* unchanged.
C12_DuplicateRegistrationFails ==
  [][\A p \in Procs, e \in Emails, pw \in Passwords :
       /\ (BeginCreateUser(p, e, pw) /\ UserByEmail(e) # 0) =>
            /\ resp' = Response("register", 400, "Email already registered")
            /\ users' = users
            /\ procs' = procs
       /\ (BeginPostRegister(p, e, pw) /\ UserByEmail(e) # 0) =>
            /\ resp'.op = "register_form"
            /\ resp'.message = "Email already registered"
            /\ users' = users
            /\ procs' = procs]_vars

\* A registration was refused for an email whose account has since logged in.
C12_Witness ==
  /\ resp.op = "register" /\ resp.status = 400
  /\ \E u \in UserIds : create_session_token(users[u].email) \in issued

\* ------------------------------------------------------------------------
\* Quota-consuming requests step by step: the handler authenticates and calls
\* check_and_reset_quota, does its work (file, LLM call), and calls
\* consume_quota at the end.  Another request of the same user may run in
\* between; each request has its own database session.
\* ------------------------------------------------------------------------
\* The request in flight: `row` is the users row as the session loaded it,
\* `fresh` tells that check_and_reset_quota committed (the commit expires the
\* loaded attributes, so consume_quota reads scan_count again).
QuotaProc(kind, u, rid, name) ==
  [pc |-> "work", kind |-> kind, row |-> QuotaReset(users, u)[u], uid |-> u,
   rid |-> rid, name |-> name, fresh |-> QuotaReset(users, u) # users]

InFlightUploads == {p \in Procs : procs[p].pc = "work" /\ procs[p].kind = "upload_form"}

\* post_upload, lines 1170-1190: up to the file being written
BeginUpload(p, tok, filename) ==
  LET u == get_current_user_from_request(tok) IN
  /\ procs[p].pc = "idle"
  /\ IF u = 0
     THEN /\ resp' = RedirectLogin("upload_form")
          /\ UNCHANGED <<users, files, procs>>
     ELSE IF check_and_reset_quota(u) <= 0
     THEN /\ resp' = RefResponse("upload_form", 200, MSG_QUOTA_FORM, 0)
          /\ users' = QuotaReset(users, u)
          /\ UNCHANGED <<files, procs>>
     ELSE IF ~allowed_file(filename)
     THEN /\ resp' = RefResponse("upload_form", 200, "Only PDF or DOCX allowed", 0)
          /\ users' = QuotaReset(users, u)
          /\ UNCHANGED <<files, procs>>
     ELSE /\ Cardinality(resumes) + Cardinality(InFlightUploads) < MaxResumes
          /\ NextId(resumes) + Cardinality(InFlightUploads) <= MaxRowId
          /\ users' = QuotaReset(users, u)
          /\ files' = files \cup {UniqueName(u, filename)}
          /\ procs' = [procs EXCEPT ![p] =
                         QuotaProc("upload_form", u, 0, UniqueName(u, filename))]
          /\ UNCHANGED resp
  /\ UNCHANGED <<resumes, jds, reset_tokens, issued, now>>

\* post_improve, lines 1828-1859: up to the LLM call
BeginImprove(p, tok, rid) ==
  LET u == get_current_user_from_request(tok) IN
  /\ procs[p].pc = "idle"
  /\ IF u = 0
     THEN /\ resp' = RedirectLogin("improve")
          /\ UNCHANGED <<users, procs>>
     ELSE IF check_and_reset_quota(u) <= 0
     THEN /\ resp' = RefResponse("improve", 200, MSG_QUOTA, rid)
          /\ users' = QuotaReset(users, u)
          /\ UNCHANGED procs
     ELSE IF OwnRow(resumes, rid, u) = {}
     THEN /\ resp' = RefResponse("improve", 200, "Resume not found", rid)
          /\ users' = QuotaReset(users, u)
          /\ UNCHANGED procs
     ELSE /\ users' = QuotaReset(users, u)
          /\ procs' = [procs EXCEPT ![p] = QuotaProc("improve", u, rid, NULL)]
          /\ UNCHANGED resp
  /\ UNCHANGED <<resumes, files, jds, reset_tokens, issued, now>>

\* The scan_count the session of request p holds when consume_quota runs: the
\* value loaded with the user; after a commit in check_and_reset_quota the
\* session either kept it or reads the column again (SessionLocal's
\* expire_on_commit setting is defined outside this source tree).
SeenCounts(p) ==
  IF procs[p].fresh
  THEN {procs[p].row.scan_count, users[procs[p].uid].scan_count}
  ELSE {procs[p].row.scan_count}

\* consume_quota in the session of request p:
\* user.scan_count = (user.scan_count or 0) + 1; db.commit()
ConsumeInSession(p, seen) ==
  IF IsExempt(users, procs[p].uid) THEN users
  ELSE [users EXCEPT ![procs[p].uid].scan_count = seen + 1]

\* post_upload, lines 1203-1213: the row is added, the quota consumed
FinishUpload(p) ==
  /\ procs[p].pc = "work" /\ procs[p].kind = "upload_form"
  /\ resumes' = resumes \cup
       {[id |-> NextId(resumes), user_id |-> procs[p].uid, filename |-> procs[p].name,
         original_filename |-> "my cv.pdf"]}
  /\ \E seen \in SeenCounts(p) : users' = ConsumeInSession(p, seen)
  /\ resp' = RefResponse("upload_form", 302, "/dashboard", NextId(resumes))
  /\ procs' = [procs EXCEPT ![p] = IdleProc]
  /\ UNCHANGED <<files, jds, reset_tokens, issued, now>>

\* post_improve, lines 1866-1876
FinishImprove(p) ==
  /\ procs[p].pc = "work" /\ procs[p].kind = "improve"
  /\ \E seen \in SeenCounts(p) : users' = ConsumeInSession(p, seen)
  /\ resp' = RefResponse("improve", 200, "improvement_results", procs[p].rid)
  /\ procs' = [procs EXCEPT ![p] = IdleProc]
  /\ UNCHANGED <<resumes, files, jds, reset_tokens, issued, now>>

RaceRegister == \E e \in QuotaEmails : api_register(e, "secret1")

RaceLogin == \E e \in QuotaEmails : api_login(e, "secret1")

RaceUploadStart == \E p \in Procs, tok \in issued : BeginUpload(p, tok, "my cv.pdf")

RaceUploadEnd == \E p \in Procs : FinishUpload(p)

RaceImproveStart == \E p \in Procs, tok \in issued, rid \in SubmittedResumeIds :
  BeginImprove(p, tok, rid)

RaceImproveEnd == \E p \in Procs : FinishImprove(p)

NextQuotaRace ==
  \/ RaceRegister \/ RaceLogin \/ RaceUploadStart \/ RaceUploadEnd
  \/ RaceImproveStart \/ RaceImproveEnd \/ MonthClock

SpecQuotaRace == Init /\ [][NextQuotaRace]_vars

\* C13: when quota-consuming requests of one non-exempt user interleave, every
\* request that succeeds within the month of its quota check finds scan_count
\* below MAX_MONTHLY_SCANS and raises it by exactly one, so that scan_count
\* counts the successful requests and never passes the limit.
C13_QuotaUnderConcurrency ==
  [][\A p \in Procs :
       ((FinishUpload(p) \/ FinishImprove(p))
          /\ ~IsExempt(users, procs[p].uid)
          /\ Month(users[procs[p].uid].last_quota_reset) = Month(now)) =>
         /\ users[procs[p].uid].scan_count < MAX_MONTHLY_SCANS
         /\ users'[procs[p].uid].scan_count = users[procs[p].uid].scan_count + 1]_vars

\* ------------------------------------------------------------------------
\* LLM output and its parsing (utils.py call_llm, _parse_json_or_fallback)
\* ------------------------------------------------------------------------
\* The text of an LLM reply is a sequence of lexical tokens.  JSON values are
\* records [t, v]: t the JSON type, v the literal as written.
JVal(t, v) == [t |-> t, v |-> v]
NoVal == JVal("none", "")

Tok(t) == [t |-> t, key |-> "", val |-> NoVal, q |-> "d"]
\* fence_json is the opening of a fenced json block, fence three backticks,
\* tick one backtick, nl white space
FENCE_JSON == Tok("fence_json")
FENCE == Tok("fence")
TICK == Tok("tick")
LBRACE == Tok("{")
RBRACE == Tok("}")
LBRACKET == Tok("[")
RBRACKET == Tok("]")
COMMA == Tok(",")
NL == Tok("nl")
PROSE == Tok("prose")

\* A scalar literal, and an object member "key": value (q: "s" when the
\* member is written with single quotes)
Scalar(val) == [t |-> "scalar", key |-> "", val |-> val, q |-> "d"]
Member(key, val) == [t |-> "member", key |-> key, val |-> val, q |-> "d"]
MemberSingleQuoted(key, val) == [t |-> "member", key |-> key, val |-> val, q |-> "s"]

\* str.strip(): leading and trailing whitespace removed
RECURSIVE LStrip(_, _)
LStrip(toks, t) ==
  IF toks # <<>> /\ Head(toks).t = t THEN LStrip(Tail(toks), t) ELSE toks

RECURSIVE RStrip(_, _)
RStrip(toks, t) ==
  IF toks # <<>> /\ toks[Len(toks)].t = t
  THEN RStrip(SubSeq(toks, 1, Len(toks) - 1), t) ELSE toks

Strip(toks, t) == RStrip(LStrip(toks, t), t)

\* call_llm: the reply text stripped, "" on timeout, connection error or any
\* other exception
LlmFailures == {"timeout", "connection_error", "http_error"}

call_llm(outcome) ==
  IF outcome.kind \in LlmFailures THEN <<>> ELSE Strip(outcome.text, "nl")

\* The result of parsing: kind "fail" (an exception), "scalar", "list" or
\* "object"; members are the object's members or the list's items in order.
Parsed(kind, val, members) == [kind |-> kind, val |-> val, members |-> members]
ParseFail == Parsed("fail", NoVal, <<>>)

NoNl(toks) == SelectSeq(toks, LAMBDA x : x.t # "nl")

\* Literals json.loads accepts / ast.literal_eval accepts
JsonTypes == {"num", "str", "null", "true", "list_str", "list_num", "list_empty"}
PyTypes == {"num", "str", "pynone", "list_str", "list_num", "list_empty"}

Enclosed(s, open, close) ==
  Len(s) >= 2 /\ s[1].t = open /\ s[Len(s)].t = close

Inner(s) == SubSeq(s, 2, Len(s) - 1)

\* A value grammar shared by json.loads and ast.literal_eval: a scalar, a list
\* of scalars, or an object of members; types are the literals accepted and
\* quotes the quoting styles accepted.
ParseWith(toks, types, quotes) ==
  LET s == NoNl(toks) IN
  IF Len(s) = 1 /\ s[1].t = "scalar" /\ s[1].val.t \in types
  THEN Parsed("scalar", s[1].val, <<>>)
  ELSE IF Enclosed(s, "[", "]")
          /\ \A i \in 1..Len(Inner(s)) :
               Inner(s)[i].t = "scalar" /\ Inner(s)[i].val.t \in types
  THEN Parsed("list", NoVal, Inner(s))
  ELSE IF Enclosed(s, "{", "}")
          /\ \A i \in 1..Len(Inner(s)) :
               /\ Inner(s)[i].t = "member"
               /\ Inner(s)[i].val.t \in types
               /\ Inner(s)[i].q \in quotes
  THEN Parsed("object", NoVal, Inner(s))
  ELSE ParseFail

json_loads(toks) == ParseWith(toks, JsonTypes, {"d"})

literal_eval(toks) == ParseWith(toks, PyTypes, {"d", "s"})

\* The index of the next token after i that is not whitespace (0: none)
NextNonNl(toks, i) ==
  IF \E j \in (i + 1)..Len(toks) : toks[j].t # "nl"
  THEN CHOOSE j \in (i + 1)..Len(toks) :
         toks[j].t # "nl" /\ \A k \in (i + 1)..(j - 1) : toks[k].t = "nl"
  ELSE 0

\* re.sub(r",\s*([}\]])", r"\1", s): commas before a closing bracket removed
RemoveTrailingCommas(toks) ==
  LET keep == {i \in 1..Len(toks) :
                 ~(toks[i].t = "," /\ NextNonNl(toks, i) # 0
                     /\ toks[NextNonNl(toks, i)].t \in {"}", "]"})}
      F[i \in 0..Len(toks)] ==
        IF i = 0 THEN <<>>
        ELSE IF i \in keep THEN Append(F[i - 1], toks[i]) ELSE F[i - 1]
  IN F[Len(toks)]

\* s.replace("'", '"')
ReplaceQuotes(toks) == [i \in 1..Len(toks) |-> [toks[i] EXCEPT !.q = "d"]]

\* json.loads, then json.loads on the re-quoted text, then ast.literal_eval
LenientParse(toks) ==
  IF json_loads(toks).kind # "fail" THEN json_loads(toks)
  ELSE IF json_loads(ReplaceQuotes(toks)).kind # "fail"
  THEN json_loads(ReplaceQuotes(toks))
  ELSE literal_eval(toks)

IsFence(tok) == tok.t \in {"fence", "fence_json"}

\* re.search for a fenced json block followed by a closing fence: the pairs <<start, end>> of
\* the braces of possible matches
FencedMatches(toks) ==
  {m \in (1..Len(toks)) \X (1..Len(toks)) :
     /\ toks[m[1]].t = "{" /\ toks[m[2]].t = "}" /\ m[1] < m[2]
     /\ \E f \in 1..(m[1] - 1) : toks[f].t = "fence_json" /\ NextNonNl(toks, f) = m[1]
     /\ NextNonNl(toks, m[2]) # 0 /\ IsFence(toks[NextNonNl(toks, m[2])])}

\* The match the regex engine reports: leftmost start, then shortest
FencedCandidate(toks) ==
  LET m == CHOOSE m \in FencedMatches(toks) :
             \A n \in FencedMatches(toks) :
               m[1] < n[1] \/ (m[1] = n[1] /\ m[2] <= n[2])
  IN SubSeq(toks, m[1], m[2])

FirstIndex(toks, t) ==
  IF \E i \in 1..Len(toks) : toks[i].t = t
  THEN CHOOSE i \in 1..Len(toks) : toks[i].t = t /\ \A j \in 1..(i - 1) : toks[j].t # t
  ELSE 0

LastIndex(toks, t) ==
  IF \E i \in 1..Len(toks) : toks[i].t = t
  THEN CHOOSE i \in 1..Len(toks) :
         toks[i].t = t /\ \A j \in (i + 1)..Len(toks) : toks[j].t # t
  ELSE 0

\* text[text.find("{") : text.rfind("}") + 1], <<>> when there is no such part
BraceSnippet(toks) ==
  IF FirstIndex(toks, "{") # 0 /\ LastIndex(toks, "}") > FirstIndex(toks, "{")
  THEN SubSeq(toks, FirstIndex(toks, "{"), LastIndex(toks, "}"))
  ELSE <<>>

\* _parse_json_or_fallback: ParseFail stands for None
parse_json_or_fallback(toks) ==
  IF toks = <<>> THEN ParseFail
  ELSE IF json_loads(toks).kind # "fail" THEN json_loads(toks)
  ELSE IF FencedMatches(toks) # {}
          /\ LenientParse(RemoveTrailingCommas(FencedCandidate(toks))).kind # "fail"
  THEN LenientParse(RemoveTrailingCommas(FencedCandidate(toks)))
  ELSE IF BraceSnippet(toks) # <<>>
  THEN LenientParse(RemoveTrailingCommas(BraceSnippet(toks)))
  ELSE ParseFail

\* ------------------------------------------------------------------------
\* process_resume_file (utils.py lines 215-277)
\* ------------------------------------------------------------------------
\* Python truth value of a JSON value (an absent value counts as None)
ValTruthy(val) ==
  CASE val.t \in {"none", "null", "pynone", "list_empty"} -> FALSE
    [] val.t \in {"num", "str"} -> val.v \notin {"", "0"}
    [] OTHER -> TRUE

PyTruthy(parsed) ==
  CASE parsed.kind = "fail" -> FALSE
    [] parsed.kind = "scalar" -> ValTruthy(parsed.val)
    [] OTHER -> parsed.members # <<>>

LastIndexOfKey(members, key) ==
  CHOOSE i \in 1..Len(members) :
    members[i].key = key /\ \A j \in (i + 1)..Len(members) : members[j].key # key

\* dict.get(key), NoVal when the key is absent (the last occurrence counts)
Get(parsed, key) ==
  IF \E i \in 1..Len(parsed.members) : parsed.members[i].key = key
  THEN parsed.members[LastIndexOfKey(parsed.members, key)].val
  ELSE NoVal

\* int(x): the exception raised ("none" when there is none) and the integer
IntOf(val) ==
  CASE val.t = "none" -> [exc |-> "none", n |-> 0]
    [] val.t = "num" /\ val.v = "0" -> [exc |-> "none", n |-> 0]
    [] val.t = "num" /\ val.v = "70" -> [exc |-> "none", n |-> 70]
    [] val.t = "num" /\ val.v = "70.5" -> [exc |-> "none", n |-> 70]
    [] val.t = "num" /\ val.v = "150" -> [exc |-> "none", n |-> 150]
    [] val.t = "str" /\ val.v = "70" -> [exc |-> "none", n |-> 70]
    [] val.t = "str" -> [exc |-> "ValueError", n |-> 0]
    [] val.t = "true" -> [exc |-> "none", n |-> 1]
    [] OTHER -> [exc |-> "TypeError", n |-> 0]

\* "; ".join(x): the exception raised, "none" when there is none
JoinExc(val) ==
  IF val.t \in {"str", "list_str", "list_empty"} THEN "none" ELSE "TypeError"

EmptyList == JVal("list_empty", "[]")

\* x or []
OrEmptyList(val) == IF ValTruthy(val) THEN val ELSE EmptyList

\* x or ""
OrEmptyString(val) == IF ValTruthy(val) THEN val ELSE JVal("str", "")

NoAnalysis == [score |-> 0]

\* The body of the try block from the parsed reply on: the exception raised,
\* whether the return statement was reached, and the dict returned
TryProcess(parsed) ==
  LET suggestions == OrEmptyList(Get(parsed, "suggestions")) IN
  IF ~PyTruthy(parsed)
  THEN [exc |-> "none", returned |-> FALSE, value |-> NoAnalysis]
  ELSE IF parsed.kind # "object"
  THEN [exc |-> "AttributeError", returned |-> FALSE, value |-> NoAnalysis]
  ELSE IF IntOf(Get(parsed, "score")).exc # "none"
  THEN [exc |-> IntOf(Get(parsed, "score")).exc, returned |-> FALSE, value |-> NoAnalysis]
  ELSE IF ValTruthy(suggestions) /\ JoinExc(suggestions) # "none"
  THEN [exc |-> JoinExc(suggestions), returned |-> FALSE, value |-> NoAnalysis]
  ELSE [exc |-> "none", returned |-> TRUE,
        value |->
          [score |-> IntOf(Get(parsed, "score")).n,
           feedback |-> IF ValTruthy(suggestions)
                        THEN JVal("str", "Suggestions: " \o suggestions.v)
                        ELSE OrEmptyString(Get(parsed, "feedback")),
           strengths |-> OrEmptyList(Get(parsed, "strengths")),
           weaknesses |-> OrEmptyList(Get(parsed, "weaknesses")),
           suggestions |-> suggestions,
           raw |-> parsed]]

\* Variant: the handler catches ValueError only
CaughtByExcept_ValueErrorOnly(exc) == exc = "ValueError"

\* except Exception
CaughtByExcept(exc) == TRUE

\* random.randint(35, 90) and the two random.random() > 0.5 draws
MockDraws == [score : 35..90, strong : BOOLEAN, weak : BOOLEAN]

MockAnalysis(rnd) ==
  [score |-> rnd.score,
   feedback |-> JVal("str", "Mock feedback: emphasize achievements, quantify results, and add relevant keywords."),
   strengths |-> IF rnd.strong
                 THEN JVal("list_str", "Clear formatting; Relevant experience")
                 ELSE JVal("list_str", "Concise summary"),
   weaknesses |-> IF rnd.weak
                  THEN JVal("list_str", "Missing metrics; Weak keywords")
                  ELSE JVal("list_str", "Too generic summary"),
   suggestions |-> JVal("list_str", "Quantify achievements with numbers; ...")]

\* process_resume_file: `raised` tells that an exception left the function
process_resume_file(outcome, rnd) ==
  LET body == TryProcess(parse_json_or_fallback(call_llm(outcome))) IN
  IF body.exc # "none" /\ ~CaughtByExcept(body.exc)
  THEN [raised |-> TRUE, value |-> NoAnalysis]
  ELSE IF body.returned
  THEN [raised |-> FALSE, value |-> body.value]
  ELSE [raised |-> FALSE, value |-> MockAnalysis(rnd)]

\* ------------------------------------------------------------------------
\* Replies of the LLM service
\* ------------------------------------------------------------------------
NUM_70 == JVal("num", "70")
STR_LIST == JVal("list_str", "a; b")

ScoreMembers ==
  {Member("score", v) :
     v \in {NUM_70, JVal("num", "70.5"), JVal("num", "150"), JVal("str", "70"),
            JVal("str", "high"), JVal("null", "null"), STR_LIST}}

\* Reply texts: empty, prose, JSON scalars and lists, objects with a good or
\* bad score or suggestions, fenced and wrapped objects, Python literals
LlmTexts ==
  {<<>>, <<NL>>, <<PROSE>>, <<PROSE, NL, PROSE>>,
   <<Scalar(JVal("str", "hi"))>>, <<Scalar(JVal("num", "5"))>>,
   <<Scalar(JVal("null", "null"))>>,
   <<LBRACKET, RBRACKET>>, <<LBRACKET, Scalar(NUM_70), RBRACKET>>,
   <<LBRACE, RBRACE>>, <<RBRACE, LBRACE>>, <<PROSE, LBRACE, PROSE, RBRACE>>,
   <<LBRACE, Member("score", NUM_70), Member("suggestions", STR_LIST), RBRACE>>,
   <<LBRACE, Member("score", NUM_70), Member("suggestions", JVal("list_num", "1; 2")), RBRACE>>,
   <<LBRACE, Member("feedback", JVal("str", "fine")), RBRACE>>,
   <<FENCE_JSON, NL, LBRACE, Member("score", NUM_70), COMMA, NL, RBRACE, NL, FENCE>>,
   <<FENCE, NL, LBRACE, Member("strengths", STR_LIST), RBRACE, NL, FENCE>>,
   <<PROSE, LBRACE, MemberSingleQuoted("score", NUM_70), RBRACE, PROSE>>,
   <<PROSE, LBRACE, Member("score", JVal("pynone", "None")), RBRACE>>}
  \cup {<<LBRACE, m, RBRACE>> : m \in ScoreMembers}

LlmOutcomes ==
  {[kind |-> k, text |-> <<>>] : k \in LlmFailures}
  \cup {[kind |-> "ok", text |-> t] : t \in LlmTexts}

\* The LLM service answers (or fails to answer) the request of call_llm
LlmReply ==
  /\ \E o \in LlmOutcomes : resp' = [op |-> "llm_reply", outcome |-> o]
  /\ UNCHANGED <<users, resumes, files, jds, reset_tokens, issued, now, procs>>

\* process_resume_file on that reply; the reply and what the function
\* returned are kept in resp
ProcessResume ==
  /\ resp.op = "llm_reply"
  /\ \E rnd \in MockDraws :
       resp' = [op |-> "process_resume_file", outcome |-> resp.outcome,
                result |-> process_resume_file(resp.outcome, rnd)]
  /\ UNCHANGED <<users, resumes, files, jds, reset_tokens, issued, now, procs>>

NextProcess == LlmReply \/ ProcessResume

SpecProcess == Init /\ [][NextProcess]_vars

ResumeKeys == {"score", "feedback", "strengths", "weaknesses", "suggestions"}

\* The outcomes the claim lists: no usable reply, a reply that is not JSON,
\* JSON that is not an object, an object whose score is not a number
IsFallbackCase(o) ==
  \/ o.kind \in LlmFailures
  \/ call_llm(o) = <<>>
  \/ parse_json_or_fallback(call_llm(o)).kind # "object"
  \/ IntOf(Get(parse_json_or_fallback(call_llm(o)), "score")).exc # "none"

\* C14: whatever the LLM call yields, process_resume_file raises nothing and
\* returns a dict with score, feedback, strengths, weaknesses and suggestions;
\* when the reply is unusable (failure, empty, unparsable, not an object,
\* non-numeric score) the dict is the mock one: score in 35..90, no 'raw' key.
C14_ProcessAlwaysFallsBack ==
  resp.op = "process_resume_file" =>
    /\ ~resp.result.raised
    /\ ResumeKeys \subseteq DOMAIN resp.result.value
    /\ IsFallbackCase(resp.outcome) =>
         /\ resp.result.value.score \in 35..90
         /\ "raw" \notin DOMAIN resp.result.value

\* The reply was a JSON list: .get fails inside the try block, the mock is used
C14_Witness ==
  /\ resp.op = "process_resume_file"
  /\ resp.outcome.kind = "ok"
  /\ parse_json_or_fallback(call_llm(resp.outcome)).kind = "list"
  /\ PyTruthy(parse_json_or_fallback(call_llm(resp.outcome)))
  /\ "raw" \notin DOMAIN resp.result.value
  /\ resp.result.value.score = 35

\* ------------------------------------------------------------------------
\* analyze_resume_vs_jd (utils.py lines 279-383)
\* ------------------------------------------------------------------------
StartsWith(toks, t) == toks # <<>> /\ Head(toks).t = t
EndsWith(toks, t) == toks # <<>> /\ toks[Len(toks)].t = t

\* raw_clean[7:] when the text starts with the json fence, raw_clean[3:] when
\* it (then) starts with a fence, raw_clean[:-3] when it ends with a fence
DropFences(toks) ==
  LET a == IF StartsWith(toks, "fence_json") THEN Tail(toks) ELSE toks
      b == IF StartsWith(a, "fence") THEN Tail(a) ELSE a
  IN IF EndsWith(b, "fence") THEN SubSeq(b, 1, Len(b) - 1) ELSE b

\* Leading backticks removed; of a leading json fence the word json is left
RECURSIVE LStripTicks(_)
LStripTicks(toks) ==
  IF toks = <<>> THEN toks
  ELSE IF Head(toks).t \in {"tick", "fence"} THEN LStripTicks(Tail(toks))
  ELSE IF Head(toks).t = "fence_json" THEN <<PROSE>> \o Tail(toks)
  ELSE toks

RECURSIVE RStripTicks(_)
RStripTicks(toks) ==
  IF toks # <<>> /\ toks[Len(toks)].t \in {"tick", "fence"}
  THEN RStripTicks(SubSeq(toks, 1, Len(toks) - 1))
  ELSE toks

\* raw_clean.strip('`')
StripTicks(toks) == RStripTicks(LStripTicks(toks))

\* Lines 306-330: the text handed to json.loads, <<>> when ValueError("No
\* valid JSON found in response") is raised
JsonStr(raw) ==
  LET raw_clean == StripTicks(DropFences(Strip(raw, "nl"))) IN
  IF StartsWith(raw_clean, "{") /\ EndsWith(raw_clean, "}") THEN raw_clean
  ELSE BraceSnippet(raw_clean)

ListKeys == {"strengths", "weaknesses", "improvements", "matched_keywords", "missing_keywords"}
NumberKeys == {"match_score", "ats_score", "skills_alignment"}
TextKeys == {"experience_match", "recommendation", "resume_name", "jd_title"}
ExpectedKeys == ListKeys \cup NumberKeys \cup TextKeys

\* The value given to an expected key that the reply lacks
DefaultFor(key) ==
  IF key \in ListKeys THEN EmptyList
  ELSE IF key \in NumberKeys THEN JVal("num", "0")
  ELSE JVal("str", "")

\* The texts put in place of an empty strengths / weaknesses / improvements
ContentFor(key) ==
  CASE key = "strengths" ->
         JVal("list_str", "Resume shows relevant experience; Clear professional formatting")
    [] key = "weaknesses" ->
         JVal("list_str", "Could benefit from more specific achievements; Missing some key industry keywords")
    [] OTHER ->
         JVal("list_str", "Quantify achievements with specific numbers; Add more industry-specific keywords; Include measurable results")

\* Variant: an empty list is left as it is
EnsureContent_Keep(val, key) == val

\* if not data.get(key): data[key] = [...]
EnsureContent(val, key) == IF ValTruthy(val) THEN val ELSE ContentFor(key)

PresentKeys(parsed) == {parsed.members[i].key : i \in 1..Len(parsed.members)}

\* Lines 331-352: the dict returned for a parsed object
CompleteAnalysis(parsed) ==
  [k \in PresentKeys(parsed) \cup ExpectedKeys |->
     LET val == IF k \in PresentKeys(parsed) THEN Get(parsed, k) ELSE DefaultFor(k) IN
     IF k \in {"strengths", "weaknesses", "improvements"}
     THEN EnsureContent(val, k) ELSE val]

\* The random.randint draws of the mock: the ends and the middle of each range
AnalysisDraws == [match : {45, 70, 95}, ats : {40, 65, 90}, skills : {60, 75, 95}]

NumVal(n) ==
  JVal("num", CASE n = 40 -> "40" [] n = 45 -> "45" [] n = 60 -> "60" [] n = 65 -> "65"
                [] n = 70 -> "70" [] n = 75 -> "75" [] n = 90 -> "90" [] OTHER -> "95")

\* Lines 355-383: the mock returned when anything was raised
MockComparison(rnd, resume_name, jd_title) ==
  [k \in ExpectedKeys |->
     CASE k = "match_score" -> NumVal(rnd.match)
       [] k = "ats_score" -> NumVal(rnd.ats)
       [] k = "skills_alignment" -> NumVal(rnd.skills)
       [] k = "resume_name" -> JVal("str", resume_name)
       [] k = "jd_title" -> JVal("str", jd_title)
       [] k \in ListKeys -> JVal("list_str", "mock " \o k)
       [] OTHER -> JVal("str", "mock " \o k)]

\* analyze_resume_vs_jd on the reply of the LLM service
analyze_resume_vs_jd(outcome, resume_name, jd_title, rnd) ==
  LET json_str == JsonStr(call_llm(outcome)) IN
  IF json_str = <<>> \/ json_loads(json_str).kind # "object"
  THEN MockComparison(rnd, resume_name, jd_title)
  ELSE CompleteAnalysis(json_loads(json_str))

MATCH_75 == Member("match_score", JVal("num", "75"))
STRENGTHS == Member("strengths", STR_LIST)

AnalysisTexts ==
  {<<>>, <<PROSE>>, <<Scalar(NUM_70)>>, <<LBRACKET, RBRACKET>>, <<RBRACE, LBRACE>>,
   <<LBRACE, RBRACE>>,
   <<LBRACE, MATCH_75, STRENGTHS, RBRACE>>,
   <<LBRACE, Member("strengths", EmptyList), RBRACE>>,
   <<LBRACE, Member("weaknesses", JVal("null", "null")), RBRACE>>,
   <<LBRACE, Member("improvements", JVal("str", "")), Member("extra", NUM_70), RBRACE>>,
   <<LBRACE, Member("strengths", NUM_70), RBRACE>>,
   <<LBRACE, MATCH_75, COMMA, RBRACE>>,
   <<LBRACE, MemberSingleQuoted("match_score", NUM_70), RBRACE>>,
   <<FENCE_JSON, NL, LBRACE, MATCH_75, RBRACE, NL, FENCE>>,
   <<FENCE, LBRACE, STRENGTHS, RBRACE, FENCE>>,
   <<TICK, LBRACE, MATCH_75, RBRACE, TICK>>,
   <<PROSE, NL, LBRACE, STRENGTHS, RBRACE, NL, PROSE>>,
   <<PROSE, LBRACE, PROSE, RBRACE>>,
   <<LBRACE, MATCH_75, RBRACE, PROSE, LBRACE, STRENGTHS, RBRACE>>}

AnalysisOutcomes ==
  {[kind |-> k, text |-> <<>>] : k \in LlmFailures}
  \cup {[kind |-> "ok", text |-> t] : t \in AnalysisTexts}

AnalysisReply ==
  /\ \E o \in AnalysisOutcomes : resp' = [op |-> "llm_reply", outcome |-> o]
  /\ UNCHANGED <<users, resumes, files, jds, reset_tokens, issued, now, procs>>

\* analyze_resume_vs_jd on that reply; the reply and the dict returned are kept
\* in resp
Analyze ==
  /\ resp.op = "llm_reply"
  /\ \E rnd \in AnalysisDraws :
       resp' = [op |-> "analyze_resume_vs_jd", outcome |-> resp.outcome,
                result |-> analyze_resume_vs_jd(resp.outcome, "my cv.pdf",
                                                "Engineer at Acme", rnd)]
  /\ UNCHANGED <<users, resumes, files, jds, reset_tokens, issued, now, procs>>

NextAnalysis == AnalysisReply \/ Analyze

SpecAnalysis == Init /\ [][NextAnalysis]_vars

\* C15: for every LLM output the dict analyze_resume_vs_jd returns has all
\* twelve keys of the schema, and its strengths, weaknesses and improvements
\* are not empty.
C15_FixedSchema ==
  resp.op = "analyze_resume_vs_jd" =>
    /\ ExpectedKeys \subseteq DOMAIN resp.result
    /\ \A k \in {"strengths", "weaknesses", "improvements"} : ValTruthy(resp.result[k])

\* The reply was a JSON object with an empty strengths list and nothing else
C15_Witness ==
  /\ resp.op = "analyze_resume_vs_jd"
  /\ resp.outcome.text = <<LBRACE, Member("strengths", EmptyList), RBRACE>>
  /\ resp.result["strengths"] = ContentFor("strengths")
  /\ resp.result["match_score"] = JVal("num", "0")

\* ------------------------------------------------------------------------
\* Claim on stored file names
\* ------------------------------------------------------------------------
\* Requests handled at the same value of `now` fall into the same second of
\* time.time(), the only part of a stored name that varies for one user and
\* one submitted name.

\* C16: after any sequence of uploads, renames and deletions no two resume
\* rows have the same stored filename.
C16_StoredFilenamesDistinct ==
  \A r1 \in resumes, r2 \in resumes : r1.filename = r2.filename => r1 = r2

\* ------------------------------------------------------------------------
\* Google login (app.py api_google_login, google_auth.py)
\* ------------------------------------------------------------------------
\* GOOGLE_CLIENT_ID / GOOGLE_CLIENT_SECRET as the service read them
GoogleConfigs ==
  [client_id : {NULL, "REPLACE_WITH_YOUR_ACTUAL_CLIENT_ID", "client-id"},
   client_secret : {NULL, "REPLACE_WITH_YOUR_ACTUAL_CLIENT_SECRET", "client-secret"}]

\* What the token endpoint does with the authorization code: it rejects it
\* (HTTP 400), cannot be reached, answers without an access token, or grants one
ExchangeOutcomes == {"http_400", "network_error", "no_access_token", "access_token"}

\* What the userinfo endpoint does
UserInfoOutcomes == {"request_error", "user_info"}

Ok(data) == [exc |-> "none", message |-> "", data |-> data]
Raise(message) == [exc |-> "ValueError", message |-> message, data |-> NoRow]

\* Variant: the credentials are not looked at
CredentialsUsable_Unchecked(cfg) == TRUE

\* exchange_code_for_token, lines 58-64: both values set and neither a placeholder
CredentialsUsable(cfg) ==
  /\ Truthy(cfg.client_id) /\ Truthy(cfg.client_secret)
  /\ cfg.client_id # "REPLACE_WITH_YOUR_ACTUAL_CLIENT_ID"
  /\ cfg.client_secret # "REPLACE_WITH_YOUR_ACTUAL_CLIENT_SECRET"

exchange_code_for_token(cfg, exchange) ==
  IF ~Truthy(cfg.client_id) \/ ~Truthy(cfg.client_secret)
  THEN Raise("Google OAuth credentials not configured.")
  ELSE IF ~CredentialsUsable(cfg)
  THEN Raise("Google OAuth credentials are not properly configured.")
  ELSE IF exchange = "http_400"
  THEN Raise("Invalid Google OAuth credentials or authorization code.")
  ELSE IF exchange = "network_error"
  THEN Raise("Failed to exchange authorization code")
  ELSE Ok(exchange)

get_user_info_from_code(cfg, exchange, info, data) ==
  IF exchange_code_for_token(cfg, exchange).exc # "none"
  THEN exchange_code_for_token(cfg, exchange)
  ELSE IF exchange = "no_access_token"
  THEN Raise("No access token received")
  ELSE IF info = "request_error"
  THEN Raise("Failed to get user information from Google")
  ELSE Ok(data)

\* api_google_login up to the INSERT of a new account
api_google_login(p, cfg, exchange, info, data) ==
  LET got == get_user_info_from_code(cfg, exchange, info, data) IN
  IF got.exc # "none"
  THEN /\ procs[p].pc = "idle"
       /\ resp' = Response("google", 400, got.message)
       /\ UNCHANGED <<users, resumes, files, jds, reset_tokens, issued, now, procs>>
  ELSE BeginGoogle(p, data)

GoogleLogin ==
  \E p \in Procs, cfg \in GoogleConfigs, exchange \in ExchangeOutcomes,
     info \in UserInfoOutcomes, data \in GoogleUserData :
    api_google_login(p, cfg, exchange, info, data)

NextGoogle == GoogleLogin \/ InsertCommit \/ CreateUserStart \/ Login

SpecGoogle == Init /\ [][NextGoogle]_vars

\* C17: a Google login whose authorization code is rejected, or which runs
\* with unset or placeholder OAuth credentials, is answered 400 (a handled
\* error, success false); it creates no user, starts no INSERT and issues no
\* session token.  (Every Google login step answers as "google" or starts an
\* INSERT; a step that does either and is not such a refusal must not be a
\* login with a rejected code or unusable credentials.)
C17_GoogleLoginFailsCleanly ==
  [][(resp'.op = "google" \/ procs' # procs) =>
       \/ /\ resp'.op = "google" /\ resp'.status = 400
          /\ resp'.token = NoToken
          /\ users' = users /\ issued' = issued /\ procs' = procs
       \/ \A p \in Procs, cfg \in GoogleConfigs, exchange \in ExchangeOutcomes,
             info \in UserInfoOutcomes, data \in GoogleUserData :
            (exchange = "http_400"
               \/ ~Truthy(cfg.client_id) \/ ~Truthy(cfg.client_secret)
               \/ cfg.client_id = "REPLACE_WITH_YOUR_ACTUAL_CLIENT_ID"
               \/ cfg.client_secret = "REPLACE_WITH_YOUR_ACTUAL_CLIENT_SECRET") =>
              ~api_google_login(p, cfg, exchange, info, data)]_vars

\* A Google login was refused although an earlier one had created an account
C17_Witness ==
  /\ resp.op = "google" /\ resp.status = 400
  /\ resp.message = "Invalid Google OAuth credentials or authorization code."
  /\ \E u \in UserIds : users[u].hashed_password = get_password_hash(RANDOM_PASSWORD)

\* ------------------------------------------------------------------------
\* Claim on the password of OAuth accounts
\* ------------------------------------------------------------------------
\* The credentials find_or_create_user stores for a new account
OAuthCredentials ==
  {get_password_hash(RANDOM_PASSWORD), PlainStored(LINKEDIN_PLACEHOLDER)}

\* C18: while an account still holds the credential find_or_create_user
\* (Google or LinkedIn) stored for it, authenticate_user returns None for its
\* email with every password a client supplies.
C18_OAuthAccountHasNoPassword ==
  \A u \in UserIds :
    users[u].hashed_password \in OAuthCredentials =>
      \A pw \in Passwords : authenticate_user(users[u].email, pw) = 0


\* ------------------------------------------------------------------------
\* Password reset step by step: reset_user_password first reads the token row
\* (verify_password_reset_token), then writes the password, marks the token
\* used and commits.  Another reset request, in its own database session, may
\* run between the read and the write.
\* ------------------------------------------------------------------------
RaceResetEmails == {"a@x.com"}
RaceResetPasswords == {"secret2", "secret3", "short"}

\* The call in flight: the user the token was verified for, and, once
\* reset_user_password has returned, what it returned
ResetProc(pc, t, new_password, u, success) ==
  [pc |-> pc, kind |-> "reset_password", row |-> NoRow, uid |-> u, token |-> t,
   password |-> new_password, success |-> success]

\* api_reset_password, lines 426-438, and reset_user_password, lines 162-165:
\* the two validations and the token lookup
BeginReset(p, t, new_password, confirm_password) ==
  /\ procs[p].pc = "idle"
  /\ IF new_password # confirm_password
     THEN /\ resp' = RefResponse("reset_password", 400, "Passwords do not match.", t)
          /\ UNCHANGED procs
     ELSE IF Len(new_password) < MIN_PASSWORD_LEN
     THEN /\ resp' = RefResponse("reset_password", 400,
                                 "Password must be at least 6 characters long.", t)
          /\ UNCHANGED procs
     ELSE IF verify_password_reset_token(t) = 0
     THEN /\ procs' = [procs EXCEPT ![p] = ResetProc("done", t, new_password, 0, FALSE)]
          /\ UNCHANGED resp
     ELSE /\ procs' = [procs EXCEPT ![p] =
                         ResetProc("work", t, new_password,
                                   verify_password_reset_token(t), TRUE)]
          /\ UNCHANGED resp
  /\ UNCHANGED <<users, resumes, files, jds, reset_tokens, issued, now>>

\* reset_user_password, lines 167-175: the password is set on the loaded user,
\* use_password_reset_token marks the token row if it is still unused (what it
\* returns is not looked at), the session commits, and True is returned
FinishReset(p) ==
  /\ procs[p].pc = "work" /\ procs[p].kind = "reset_password"
  /\ users' = [users EXCEPT ![procs[p].uid].hashed_password =
                 get_password_hash(procs[p].password)]
  /\ reset_tokens' = use_password_reset_token(reset_tokens, procs[p].token)
  /\ procs' = [procs EXCEPT ![p].pc = "done"]
  /\ UNCHANGED <<resumes, files, jds, issued, now, resp>>

\* api_reset_password, lines 440-449: the answer built from `success`
RespondReset(p) ==
  /\ procs[p].pc = "done" /\ procs[p].kind = "reset_password"
  /\ resp' = IF procs[p].success
             THEN RefResponse("reset_password", 200,
                              "Password has been reset successfully.", procs[p].token)
             ELSE RefResponse("reset_password", 400, MSG_BAD_TOKEN, procs[p].token)
  /\ procs' = [procs EXCEPT ![p] = IdleProc]
  /\ UNCHANGED <<users, resumes, files, jds, reset_tokens, issued, now>>

RaceResetRegister == \E e \in RaceResetEmails : api_register(e, "secret1")

RaceForgot == \E e \in RaceResetEmails : api_forgot_password(e, TRUE)

RaceResetStart ==
  \E p \in Procs, t \in SubmittedResetTokens, pw \in RaceResetPasswords,
     c \in {"secret2", "secret3"} : BeginReset(p, t, pw, c)

RaceResetEnd == \E p \in Procs : FinishReset(p)

RaceResetRespond == \E p \in Procs : RespondReset(p)

NextResetRace ==
  \/ RaceResetRegister
  \/ RaceForgot
  \/ RaceResetStart
  \/ RaceResetEnd
  \/ RaceResetRespond
  \/ ResetClock

SpecResetRace == Init /\ [][NextResetRace]_vars

\* reset_user_password has returned in p
Returned(p) == procs[p].pc = "done" /\ procs[p].kind = "reset_password"

\* C19: when two reset_user_password calls with the same token and different
\* new passwords have both returned, at most one of them returned True, and
\* the user's password is the one set by the call that returned True.
C19_OneResetPerToken ==
  \A p \in Procs, q \in Procs :
    (/\ p # q
     /\ Returned(p) /\ Returned(q)
     /\ procs[p].token = procs[q].token
     /\ procs[p].password # procs[q].password) =>
       /\ ~(procs[p].success /\ procs[q].success)
       /\ procs[p].success =>
            users[procs[p].uid].hashed_password = get_password_hash(procs[p].password)


\* ------------------------------------------------------------------------
\* Logout (app.py GET /logout)
\* ------------------------------------------------------------------------
\* logout: a redirect to /login whose Set-Cookie header deletes the session
\* cookie; the cookie the request carried (`tok`) is not looked at and no
\* table is touched
logout(tok) ==
  /\ resp' = RefResponse("logout", 302, "/login", 0)
  /\ UNCHANGED <<users, resumes, files, jds, reset_tokens, issued, now, procs>>

Logout == \E tok \in SessionTokens : logout(tok)

NextLogout ==
  SessionRegister \/ SessionLogin \/ SessionMe \/ SessionUpload \/ Logout \/ SessionClock

SpecLogout == Init /\ [][NextLogout]_vars

\* C20: after GET /logout sent with a session token the server issued, that
\* token no longer authenticates: get_current_user_from_request returns None
\* for it.
C20_LogoutRevokes ==
  [][\A tok \in issued :
       logout(tok) => (get_current_user_from_request(tok))' = 0]_vars


\* ------------------------------------------------------------------------
\* Profile photo (app.py POST / DELETE /api/profile/photo).  The photo
\* directory is the part of `files` whose names are paths below
\* PROFILE_PHOTO_DIR; users[u].profile_photo holds such a path.
\* ------------------------------------------------------------------------
PROFILE_PHOTO_DIR == "uploads/profile_photos"
MAX_PHOTO_BYTES == 5 * 1024 * 1024
ALLOWED_PHOTO_TYPES == {"image/jpeg", "image/jpg", "image/png", "image/gif", "image/webp"}

MSG_PHOTO_TYPE == "Invalid file type. Please upload a JPEG, PNG, GIF, or WebP image."
MSG_PHOTO_SIZE == "File size must be less than 5MB."

\* An uploaded part: `sized` is FALSE when photo.size is None
Photo(content_type, sized, size, filename) ==
  [content_type |-> content_type, sized |-> sized, size |-> size, filename |-> filename]

\* photo.filename.split('.')[-1].lower()
PhotoExtension(filename) ==
  CASE filename = "me.PNG" -> "png"
    [] filename = "me.jpg" -> "jpg"
    [] filename = "me.v2.jpg" -> "jpg"
    [] OTHER -> filename

\* os.path.join(PROFILE_PHOTO_DIR, f"{user.id}_{int(time.time())}.{file_extension}")
PhotoPath(u, ext) ==
  PROFILE_PHOTO_DIR \o "/" \o ToString(u) \o "_" \o ToString(now) \o "." \o ext

\* `user.profile_photo and os.path.exists(user.profile_photo)`
PhotoOnDisk(u) == Truthy(users[u].profile_photo) /\ users[u].profile_photo \in files

upload_profile_photo_api(tok, photo) ==
  LET u == get_current_user_from_request(tok)
      file_path == PhotoPath(u, PhotoExtension(photo.filename))
      written == files \cup {file_path}
  IN
  /\ IF u = 0
     THEN /\ resp' = RefResponse("photo", 401, MSG_NOT_AUTH, 0)
          /\ UNCHANGED <<users, files>>
     ELSE IF photo.content_type \notin ALLOWED_PHOTO_TYPES
     THEN /\ resp' = RefResponse("photo", 400, MSG_PHOTO_TYPE, u)
          /\ UNCHANGED <<users, files>>
     ELSE IF ~photo.sized
     THEN /\ resp' = RefResponse("photo", 500, "Failed to upload photo", u)
          /\ UNCHANGED <<users, files>>
     ELSE IF photo.size > MAX_PHOTO_BYTES
     THEN /\ resp' = RefResponse("photo", 400, MSG_PHOTO_SIZE, u)
          /\ UNCHANGED <<users, files>>
     ELSE /\ files' = IF PhotoOnDisk(u) THEN written \ {users[u].profile_photo}
                      ELSE written
          /\ users' = [users EXCEPT ![u].profile_photo = file_path]
          /\ resp' = RefResponse("photo", 200, "Profile photo updated successfully", u)
  /\ UNCHANGED <<resumes, jds, reset_tokens, issued, now, procs>>

\* POST /profile/photo
upload_profile_photo_compat(tok, photo) == upload_profile_photo_api(tok, photo)

delete_profile_photo_api(tok) ==
  LET u == get_current_user_from_request(tok) IN
  /\ IF u = 0
     THEN /\ resp' = RefResponse("photo_delete", 401, MSG_NOT_AUTH, 0)
          /\ UNCHANGED <<users, files>>
     ELSE /\ files' = IF PhotoOnDisk(u) THEN files \ {users[u].profile_photo} ELSE files
          /\ users' = [users EXCEPT ![u].profile_photo = NULL]
          /\ resp' = RefResponse("photo_delete", 200,
                                 "Profile photo deleted successfully", u)
  /\ UNCHANGED <<resumes, jds, reset_tokens, issued, now, procs>>

PhotoEmails == {"a@x.com"}

\* The uploads tried: accepted ones (two extensions, one at the size limit),
\* one of a wrong type, one above the limit, one whose size is unknown
Photos ==
  {Photo("image/png", TRUE, 1, "me.PNG"),
   Photo("image/jpeg", TRUE, MAX_PHOTO_BYTES, "me.jpg"),
   Photo("text/plain", TRUE, 1, "avatar"),
   Photo("image/png", TRUE, MAX_PHOTO_BYTES + 1, "me.PNG"),
   Photo("image/png", FALSE, 0, "me.PNG")}

PhotoRegister == \E e \in PhotoEmails : api_register(e, "secret1")

PhotoLogin == \E e \in PhotoEmails : api_login(e, "secret1")

PhotoUpload == \E tok \in PresentedTokens, photo \in Photos :
  upload_profile_photo_api(tok, photo)

PhotoUploadCompat == \E tok \in PresentedTokens, photo \in Photos :
  upload_profile_photo_compat(tok, photo)

PhotoDelete == \E tok \in PresentedTokens : delete_profile_photo_api(tok)

NextPhoto ==
  \/ PhotoRegister \/ PhotoLogin \/ PhotoUpload \/ PhotoUploadCompat \/ PhotoDelete
  \/ SessionClock

SpecPhoto == Init /\ [][NextPhoto]_vars

\* C21: after every successful POST /api/profile/photo the caller's
\* profile_photo names a file that exists in the photo directory and the
\* previous photo file (when it is another file) is gone; a request rejected
\* for its content type or for a size above 5MB leaves profile_photo and the
\* stored files unchanged.
C21_PhotoReferenceValid ==
  [][resp'.op = "photo" =>
       /\ resp'.status = 200 =>
            /\ users'[resp'.ref].profile_photo \in files'
            /\ \A f \in files :
                 (f = users[resp'.ref].profile_photo
                    /\ f # users'[resp'.ref].profile_photo) => f \notin files'
       /\ resp'.status = 400 => UNCHANGED <<users, files>>]_vars

====
